---- MODULE Spec2Model ----
(***************************************************************************)
(* A model of the SLMM gateway (serversdwn/slmm): the NL43 device client   *)
(* (app/services.py), the snapshot merger, the background poller           *)
(* (app/background_poller.py) with its loop and shutdown, the configs      *)
(* (app/routers.py) and the start cycle.                                   *)
(*                                                                         *)
(* Time is counted in ticks of half a second, the finest sleep the code    *)
(* uses (asyncio.sleep(0.5), 1.5, 2.0; the 1.0 s command spacing).         *)
(* time.time() starts at Epoch, a value larger than the spacing, so the    *)
(* default 0 of _last_command_time.get(key, 0) behaves as in the code.     *)
(***************************************************************************)
EXTENDS Integers, Sequences, FiniteSets, TLC

(***************************************************************************)
(* Bounds of the model.                                                    *)
(***************************************************************************)
TicksPerSecond == 2
MaxTime == 6

(***************************************************************************)
(* Program constants.                                                      *)
(***************************************************************************)
\* services.py:252  "if elapsed < 1.0" -- one second, in ticks
MinInterval == TicksPerSecond
\* first value of time.time() seen by the model; any value >= MinInterval
Epoch == MinInterval

Devices == {"d1", "d2"}
Tasks == {1, 2, 3}
\* no task: an asyncio.Lock that nobody holds
NoTask == 0

\* what a task runs: one _send_command call, a DRD stream, the diagnostics
\* endpoint, a start cycle, a stop cycle, PUT config, POST start, or nothing
Kinds == {"cmd", "stream", "diag", "cycle", "stop_cycle", "poll", "upsert",
          "start", "none"}

Max(a, b) == IF a >= b THEN a ELSE b

VARIABLES
    now,                \* time.time(), in ticks
    last_command_time,  \* services.py _last_command_time: device key -> tick
    device_locks,       \* services.py _device_locks: keys that have a lock
    lockHolder,         \* per device key: the task holding its asyncio.Lock
    lockWaiters,        \* per device key: asyncio.Lock._waiters, FIFO
    rlHolder,           \* the task holding _rate_limit_lock
    rlWaiters,          \* waiters of _rate_limit_lock, FIFO
    kind,               \* per task: what it runs
    dev,                \* per task: the device key of its NL43Client
    pc,                 \* per task: where it is suspended
    wakeAt,             \* per task: end of its asyncio.sleep
    cmd,                \* per task: the command it is sending
    result,             \* per task: outcome of its last command
    reply,              \* per task: data line of its last command
    hstep,              \* per task: position in its handler
    loc,                \* per task: the locals of start_cycle
    req,                \* per task: the command a single-command request sends
    askedIndex,         \* per task: the index its last Overwrite? answer was about
    conns,              \* per device: tasks holding an open TCP connection
    lastSend,           \* per device: tick of the last command written
    prevSend,           \* per device: tick of the command written before it
    storeName,          \* per device: its Store Name, four digits
    occBase,            \* per device: index after which the stored data lie
    occLen,             \* per device: how many indices after occBase hold data
    ftpDir,             \* per device: the lines of LIST in /NL-43 on its FTP server
    status,             \* nl43_status: the status row of each unit
    pollpc,             \* the background poller: where _poll_device stands
    hist,               \* per unit: the successful merges in a row, newest last
    failStreak,         \* per unit: failed polls since the last successful one
    calledAt,           \* per task: tick at which its _send_command was called
                        \* and found the device lock held by a DRD stream
    subTried,           \* per task: its stream wrote SUB (0x1A), or tried to
    polled,             \* the units polled so far in the poll cycle
    sessionSyncs,       \* start-time syncs begun in the unit's run of polls seeing Start
    running,            \* BackgroundPoller._running
    loopAt,             \* where _poll_loop stands
    stopAt,             \* where a call of BackgroundPoller.stop stands
    stopSince,          \* tick at which stop began to wait for the task
    cycles,             \* the poll cycles begun so far
    configs,            \* nl43_config: the units that have a config
    streamOpen,         \* the units with a stream_live past its config check
    pollcfg,            \* nl43_config: the polling fields of each unit's config
    cycleNow,           \* the local "now" of _poll_all_devices
    skipped             \* the units the poll cycle found not due

lockVars == <<device_locks, lockHolder, lockWaiters>>
rateVars == <<last_command_time, rlHolder, rlWaiters>>
taskVars == <<kind, dev, pc, wakeAt, cmd, result, reply, hstep, loc, req>>
wireVars == <<conns, lastSend, prevSend>>
deviceVars == <<storeName, occBase, occLen, ftpDir>>
dueVars == <<pollcfg, cycleNow, skipped>>
cfgVars == <<configs, streamOpen, dueVars>>
svcVars == <<running, loopAt, stopAt, stopSince, cycles, cfgVars>>
extVars == <<calledAt, subTried, svcVars>>
storeVars == <<status, pollpc, hist, failStreak, polled, sessionSyncs>>
dbVars == <<storeVars, extVars>>

vars == <<now, lockVars, rateVars, taskVars, askedIndex, wireVars, deviceVars,
          dbVars>>

(***************************************************************************)
(* Store Name text: "{index:04d}" and int(text).                           *)
(***************************************************************************)
\* services.py:1317  test_index % 10000
IndexModulus == 10000

\* services.py:736  f"Store Name,{index:04d}": the decimal digits, padded
\* with zeros to four; a number of five digits keeps all five
Fmt04(n) ==
    LET low == << (n \div 1000) % 10, (n \div 100) % 10, (n \div 10) % 10,
                  n % 10 >>
    IN  IF n < 10000 THEN low ELSE << (n \div 10000) % 10 >> \o low

RECURSIVE ParseInt(_)
\* services.py:1309  int(current_index_str)
ParseInt(s) == IF s = <<>> THEN 0
               ELSE 10 * ParseInt(SubSeq(s, 1, Len(s) - 1)) + s[Len(s)]

(***************************************************************************)
(* The device: answers of the NL43 to the commands the model sends.        *)
(***************************************************************************)
\* the indices occBase+1 .. occBase+occLen (mod 10000) hold stored data
Occupied(d, idx) ==
    LET off == (idx - occBase[d] + IndexModulus) % IndexModulus
    IN  IF off = 0 THEN occLen[d] >= IndexModulus ELSE off <= occLen[d]

\* services.py:747-759  Overwrite? answers "None" or "Exist"
OverwriteAnswer(d) ==
    IF Occupied(d, ParseInt(storeName[d])) THEN "Exist" ELSE "None"

\* the data line the device sends after R+0000 for a query
DeviceReply(d, c) ==
    CASE c[1] = "Store Name?" -> storeName[d]
      [] c[1] = "Overwrite?"  -> OverwriteAnswer(d)
      [] OTHER                -> "data"

\* the Store Name after the device has processed command c
DeviceStoreName(d, c) == IF c[1] = "Store Name" THEN c[2] ELSE storeName[d]

(***************************************************************************)
(* The per-device locks (asyncio.Lock: exclusive, waiters served FIFO) and *)
(* the process-wide rate-limit lock.                                       *)
(***************************************************************************)
\* asyncio.Lock.acquire takes the lock at once only if it is free and
\* nobody waits for it
LockFree(d) == lockHolder[d] = NoTask /\ lockWaiters[d] = <<>>

\* the release had it woken the waiter that came last
NewestWaiter(d) ==
    IF lockWaiters[d] = <<>> THEN NoTask
    ELSE lockWaiters[d][Len(lockWaiters[d])]

\* asyncio.Lock.release wakes the first waiter
NextHolder(d) == IF lockWaiters[d] = <<>> THEN NoTask ELSE Head(lockWaiters[d])

RateLockFree == rlHolder = NoTask /\ rlWaiters = <<>>

\* the release had it woken nobody
NoRateHolder == NoTask

\* asyncio.Lock.release of _rate_limit_lock wakes the first waiter
NextRateHolder == IF rlWaiters = <<>> THEN NoTask ELSE Head(rlWaiters)

\* the wait had _enforce_rate_limit never slept
RateWaitNone(d) == 0

\* services.py:250-253  the wait _enforce_rate_limit computes for device d
RateWait(d) ==
    LET elapsed == now - last_command_time[d]
    IN  IF elapsed < MinInterval THEN MinInterval - elapsed ELSE 0

\* services.py:270/577  "async with device_lock" entered by task t
AcquireDeviceLock(t) ==
    LET d == dev[t]
    IN  /\ device_locks' = device_locks \cup {d}
        /\ IF LockFree(d)
           THEN /\ lockHolder' = [lockHolder EXCEPT ![d] = t]
                /\ pc' = [pc EXCEPT ![t] = "have_lock"]
                /\ UNCHANGED lockWaiters
           ELSE /\ lockWaiters' = [lockWaiters EXCEPT ![d] = Append(@, t)]
                /\ pc' = [pc EXCEPT ![t] = "wait_lock"]
                /\ UNCHANGED lockHolder

\* services.py:270/577  "async with device_lock" left by task t, which goes
\* on at position p; the first waiter gets the lock
ReleaseDeviceLock(t, p) ==
    LET d == dev[t]
        w == NextHolder(d)
    IN  /\ lockHolder' = [lockHolder EXCEPT ![d] = w]
        /\ lockWaiters' = [lockWaiters EXCEPT ![d] = IF w = NoTask THEN @ ELSE Tail(@)]
        /\ pc' = [u \in Tasks |-> IF u = t THEN p
                                  ELSE IF u = w THEN "have_lock" ELSE pc[u]]
        /\ UNCHANGED device_locks

\* services.py:249-256  the body of _enforce_rate_limit, run by task t with
\* _rate_limit_lock held: sleep out the spacing, or stamp and leave
RateLimitBody(t) ==
    LET d == dev[t]
        w == RateWait(d)
        n == NextRateHolder
    IN  IF w > 0
        THEN /\ rlHolder' = t
             /\ wakeAt' = [wakeAt EXCEPT ![t] = now + w]
             /\ pc' = [pc EXCEPT ![t] = "rl_sleep"]
             /\ UNCHANGED <<last_command_time, rlWaiters>>
        ELSE /\ last_command_time' = [last_command_time EXCEPT ![d] = now]
             /\ rlHolder' = n
             /\ rlWaiters' = IF n = NoTask THEN rlWaiters ELSE Tail(rlWaiters)
             /\ pc' = [u \in Tasks |-> IF u = t THEN "connecting"
                                       ELSE IF u = n THEN "have_rl" ELSE pc[u]]
             /\ UNCHANGED wakeAt

\* services.py:247-249  _enforce_rate_limit called by the holder of the
\* device lock: take _rate_limit_lock, or wait for it
EnforceRateLimit(t) ==
    /\ pc[t] = "have_lock"
    /\ IF RateLockFree
       THEN RateLimitBody(t)
       ELSE /\ rlWaiters' = Append(rlWaiters, t)
            /\ pc' = [pc EXCEPT ![t] = "wait_rl"]
            /\ UNCHANGED <<last_command_time, rlHolder, wakeAt>>
    /\ UNCHANGED <<dbVars, req, askedIndex>>
    /\ UNCHANGED <<now, lockVars, kind, dev, cmd, result, reply, hstep, loc,
                   wireVars, deviceVars>>

\* services.py:249-256  _rate_limit_lock granted to a waiter
RateLimitGranted(t) ==
    /\ pc[t] = "have_rl"
    /\ rlHolder = t
    /\ RateLimitBody(t)
    /\ UNCHANGED <<dbVars, req, askedIndex>>
    /\ UNCHANGED <<now, lockVars, kind, dev, cmd, result, reply, hstep, loc,
                   wireVars, deviceVars>>

\* services.py:255-256  asyncio.sleep(wait_time) returns; the timestamp is
\* recorded and _rate_limit_lock released
RateLimitWake(t) ==
    LET n == NextRateHolder
    IN  /\ pc[t] = "rl_sleep"
        /\ now >= wakeAt[t]
        /\ last_command_time' = [last_command_time EXCEPT ![dev[t]] = now]
        /\ rlHolder' = n
        /\ rlWaiters' = IF n = NoTask THEN rlWaiters ELSE Tail(rlWaiters)
        /\ pc' = [u \in Tasks |-> IF u = t THEN "connecting"
                                  ELSE IF u = n THEN "have_rl" ELSE pc[u]]
        /\ UNCHANGED <<dbVars, req, askedIndex>>
        /\ UNCHANGED <<now, lockVars, kind, dev, wakeAt, cmd, result, reply,
                       hstep, loc, wireVars, deviceVars>>

(***************************************************************************)
(* One command: _send_command and _send_command_unlocked.                  *)
(***************************************************************************)
\* services.py:307  cmd.strip().endswith("?"): the command texts of the
\* model that end in a question mark
Queries == {"DOD?", "Measure?", "Battery Level?", "FTP?", "Store Name?",
            "Overwrite?", "DRD?"}

IsQuery(c) == c[1] \in Queries

\* services.py:258-271  _send_command: get the device lock, enter it
SendCommand(t) ==
    /\ pc[t] = "call"
    /\ calledAt' = [calledAt EXCEPT ![t] =
                        IF /\ lockHolder[dev[t]] # NoTask
                           /\ kind[lockHolder[dev[t]]] = "stream"
                        THEN now ELSE @]
    /\ AcquireDeviceLock(t)
    /\ UNCHANGED <<storeVars, subTried, svcVars, req, askedIndex>>
    /\ UNCHANGED <<now, rateVars, kind, dev, wakeAt, cmd, result, reply, hstep,
                   loc, wireVars, deviceVars>>

\* where a task goes on when its exchange is over: a stream ends, a command
\* hands its result to the caller
AfterExchange(t) == IF kind[t] = "stream" THEN "done" ELSE "returned"

\* services.py:279-292 (583-596)  open_connection answers. Connected: the
\* command is written. Failed: ConnectionError leaves the device lock.
Connect(t) ==
    LET d == dev[t]
    IN  /\ pc[t] = "connecting"
        /\ \E ok \in BOOLEAN :
             IF ok
             THEN /\ conns' = [conns EXCEPT ![d] = @ \cup {t}]
                  /\ prevSend' = [prevSend EXCEPT ![d] = lastSend[d]]
                  /\ lastSend' = [lastSend EXCEPT ![d] = now]
                  /\ pc' = [pc EXCEPT ![t] = "await_reply"]
                  /\ UNCHANGED <<lockVars, result>>
             ELSE /\ result' = [result EXCEPT ![t] =
                                   IF conns[d] # {} THEN "busy" ELSE "conn_err"]
                  /\ ReleaseDeviceLock(t, AfterExchange(t))
                  /\ UNCHANGED wireVars
        /\ UNCHANGED <<dbVars, req, askedIndex>>
        /\ UNCHANGED <<now, rateVars, kind, dev, wakeAt, cmd, reply, hstep, loc,
                       deviceVars>>

\* the finally block had it gone to writer.close() without the SUB
StreamFinallyUnsent(t) ==
    /\ pc' = [pc EXCEPT ![t] = "stream_drain"]
    /\ UNCHANGED subTried

\* services.py:664-670  the finally block of stream_drd is entered: SUB is
\* written and drain awaited; what it raises is dropped
StreamFinally(t) ==
    /\ pc' = [pc EXCEPT ![t] = "stream_drain"]
    /\ subTried' = [subTried EXCEPT ![t] = TRUE]

\* what the exchange of a command can end with: R+0000, another result
\* code, no line within the timeout
Outcomes == {"ok", "dev_err", "timeout"}

\* services.py:294-336 (599-608)  the result code arrives, or the wait for
\* it times out. A command is closed and leaves the device lock whatever
\* the outcome; a DRD stream that got R+0000 keeps both and reads on, one
\* that got anything else goes to its finally block.
Reply(t) ==
    LET d == dev[t]
        c == cmd[t]
    IN  /\ pc[t] = "await_reply"
        /\ \E o \in Outcomes :
           \E applied \in (IF o = "timeout" THEN BOOLEAN ELSE {o = "ok"}) :
             /\ result' = [result EXCEPT ![t] = o]
             /\ storeName' = [storeName EXCEPT ![d] =
                                 IF applied THEN DeviceStoreName(d, c) ELSE @]
             /\ reply' = [reply EXCEPT ![t] =
                             IF o = "ok" /\ IsQuery(c) THEN DeviceReply(d, c)
                             ELSE "R"]
             /\ askedIndex' = [askedIndex EXCEPT ![t] =
                                  IF o = "ok" /\ c[1] = "Overwrite?"
                                  THEN ParseInt(storeName[d]) ELSE @]
             /\ IF kind[t] = "stream"
                THEN /\ IF o = "ok"
                        THEN /\ pc' = [pc EXCEPT ![t] = "streaming"]
                             /\ UNCHANGED subTried
                        ELSE StreamFinally(t)
                     /\ UNCHANGED <<lockVars, conns>>
                ELSE /\ conns' = [conns EXCEPT ![d] = @ \ {t}]
                     /\ ReleaseDeviceLock(t, AfterExchange(t))
                     /\ UNCHANGED subTried
        /\ UNCHANGED <<storeVars, calledAt, svcVars, req>>
        /\ UNCHANGED <<now, rateVars, kind, dev, wakeAt, cmd, hstep, loc,
                       lastSend, prevSend, occBase, occLen, ftpDir>>

\* a single-command request (get_battery_level, set_index_number and the
\* like) is made
CallCommand(t) ==
    /\ kind[t] = "cmd"
    /\ pc[t] = "idle"
    /\ cmd' = [cmd EXCEPT ![t] = req[t]]
    /\ pc' = [pc EXCEPT ![t] = "call"]
    /\ UNCHANGED <<dbVars, req, askedIndex>>
    /\ UNCHANGED <<now, lockVars, rateVars, kind, dev, wakeAt, result, reply,
                   hstep, loc, wireVars, deviceVars>>

\* the single-command request returns to its caller
CommandReturn(t) ==
    /\ kind[t] = "cmd"
    /\ pc[t] = "returned"
    /\ pc' = [pc EXCEPT ![t] = "done"]
    /\ UNCHANGED <<dbVars, req, askedIndex>>
    /\ UNCHANGED <<now, lockVars, rateVars, kind, dev, wakeAt, cmd, result,
                   reply, hstep, loc, wireVars, deviceVars>>

(***************************************************************************)
(* The DRD stream.                                                         *)
(***************************************************************************)
\* services.py:575-578  stream_drd: get the device lock, enter it
StreamDrd(t) ==
    /\ kind[t] = "stream"
    /\ pc[t] = "idle"
    /\ cmd' = [cmd EXCEPT ![t] = <<"DRD?">>]
    /\ AcquireDeviceLock(t)
    /\ UNCHANGED <<dbVars, req, askedIndex>>
    /\ UNCHANGED <<now, rateVars, kind, dev, wakeAt, result, reply, hstep, loc,
                   wireVars, deviceVars>>

\* services.py:612-662  what ends the reading of a stream: no line for
\* 30 s, the device closed the connection, the callback raised, the task
\* was cancelled
StreamEnds == {"quiet", "closed", "callback_err", "cancelled"}

\* services.py:599-664  the stream leaves its try block: the reading loop
\* ends, or the task is cancelled while the result code is awaited
StreamEnd(t) ==
    /\ kind[t] = "stream"
    /\ \E why \in StreamEnds :
         /\ \/ pc[t] = "streaming"
            \/ pc[t] = "await_reply" /\ why = "cancelled"
         /\ result' = [result EXCEPT ![t] = why]
    /\ StreamFinally(t)
    /\ UNCHANGED <<storeVars, calledAt, svcVars, req, askedIndex>>
    /\ UNCHANGED <<now, lockVars, rateVars, kind, dev, wakeAt, cmd, reply, hstep,
                   loc, wireVars, deviceVars>>

\* services.py:672-674  drain is over: writer.close(), wait_closed awaited
StreamClose(t) ==
    /\ pc[t] = "stream_drain"
    /\ conns' = [conns EXCEPT ![dev[t]] = @ \ {t}]
    /\ pc' = [pc EXCEPT ![t] = "stream_closing"]
    /\ UNCHANGED <<dbVars, req, askedIndex>>
    /\ UNCHANGED <<now, lockVars, rateVars, kind, dev, wakeAt, cmd, result, reply,
                   hstep, loc, lastSend, prevSend, deviceVars>>

\* services.py:577, 676  wait_closed is over: "async with device_lock" is
\* left
StreamRelease(t) ==
    /\ pc[t] = "stream_closing"
    /\ ReleaseDeviceLock(t, "done")
    /\ UNCHANGED <<dbVars, req, askedIndex>>
    /\ UNCHANGED <<now, rateVars, kind, dev, wakeAt, cmd, result, reply, hstep,
                   loc, wireVars, deviceVars>>

(***************************************************************************)
(* The diagnostics endpoint.                                               *)
(***************************************************************************)
\* routers.py:1520  asyncio.sleep(1.5)
DiagSettle == (3 * TicksPerSecond) \div 2

\* routers.py:1486-1489  run_diagnostics, test 4: open_connection to the
\* control port is awaited; the device lock is not taken
DiagOpen(t) ==
    /\ kind[t] = "diag"
    /\ pc[t] = "idle"
    /\ pc' = [pc EXCEPT ![t] = "diag_connecting"]
    /\ UNCHANGED <<dbVars, req, askedIndex>>
    /\ UNCHANGED <<now, lockVars, rateVars, kind, dev, wakeAt, cmd, result,
                   reply, hstep, loc, wireVars, deviceVars>>

\* routers.py:1487-1516  the connection is established, or the test fails
\* and the endpoint returns
DiagConnected(t) ==
    /\ pc[t] = "diag_connecting"
    /\ \E ok \in BOOLEAN :
         IF ok
         THEN /\ conns' = [conns EXCEPT ![dev[t]] = @ \cup {t}]
              /\ pc' = [pc EXCEPT ![t] = "diag_open"]
         ELSE /\ pc' = [pc EXCEPT ![t] = "done"]
              /\ UNCHANGED conns
    /\ UNCHANGED <<dbVars, req, askedIndex>>
    /\ UNCHANGED <<now, lockVars, rateVars, kind, dev, wakeAt, cmd, result,
                   reply, hstep, loc, lastSend, prevSend, deviceVars>>

\* routers.py:1490-1520  writer.close(), then asyncio.sleep(1.5)
DiagClose(t) ==
    /\ pc[t] = "diag_open"
    /\ conns' = [conns EXCEPT ![dev[t]] = @ \ {t}]
    /\ wakeAt' = [wakeAt EXCEPT ![t] = now + DiagSettle]
    /\ pc' = [pc EXCEPT ![t] = "diag_sleep"]
    /\ UNCHANGED <<dbVars, req, askedIndex>>
    /\ UNCHANGED <<now, lockVars, rateVars, kind, dev, cmd, result, reply,
                   hstep, loc, lastSend, prevSend, deviceVars>>

\* routers.py:1522-1526  test 5: client.get_battery_level()
DiagBattery(t) ==
    /\ pc[t] = "diag_sleep"
    /\ now >= wakeAt[t]
    /\ cmd' = [cmd EXCEPT ![t] = <<"Battery Level?">>]
    /\ hstep' = [hstep EXCEPT ![t] = "battery"]
    /\ pc' = [pc EXCEPT ![t] = "call"]
    /\ UNCHANGED <<dbVars, req, askedIndex>>
    /\ UNCHANGED <<now, lockVars, rateVars, kind, dev, wakeAt, result, reply,
                   loc, wireVars, deviceVars>>

\* routers.py:1527-1573  test 5 failed: return; else test 6, get_ftp_status
\* when cfg.ftp_enabled, and return
DiagReturn(t) ==
    /\ kind[t] = "diag"
    /\ pc[t] = "returned"
    /\ \E ftp_enabled \in BOOLEAN :
         IF hstep[t] = "battery" /\ result[t] = "ok" /\ ftp_enabled
         THEN /\ cmd' = [cmd EXCEPT ![t] = <<"FTP?">>]
              /\ hstep' = [hstep EXCEPT ![t] = "ftp"]
              /\ pc' = [pc EXCEPT ![t] = "call"]
         ELSE /\ pc' = [pc EXCEPT ![t] = "done"]
              /\ UNCHANGED <<cmd, hstep>>
    /\ UNCHANGED <<dbVars, req, askedIndex>>
    /\ UNCHANGED <<now, lockVars, rateVars, kind, dev, wakeAt, result, reply,
                   loc, wireVars, deviceVars>>

(***************************************************************************)
(* The start cycle (NL43Client.start_cycle).                               *)
(***************************************************************************)
\* services.py:1268  max_index_attempts: int = 100
DefaultMaxAttempts == 100

NoIndex == -1

\* services.py:1284-1291  the result dict and the locals of start_cycle
NewCycle(sync_clock, max_index_attempts) ==
    [sync |-> sync_clock, max |-> max_index_attempts,
     clock_synced |-> FALSE, old_index |-> NoIndex, new_index |-> NoIndex,
     attempts_made |-> 0, started |-> FALSE,
     current_index |-> NoIndex, test_index |-> NoIndex, attempts |-> 0,
     last_overwrite |-> "", error |-> "none"]

\* services.py:1308  the Store Name is asked for
CycleGetIndex(l) == [l |-> l, h |-> "get_index", cmd |-> <<"Store Name?">>]

\* the head of the search loop had the index not been wrapped
CycleLoopHeadNoWrap(l) ==
    IF l.attempts < l.max
    THEN [l |-> l, h |-> "set_index",
          cmd |-> <<"Store Name", Fmt04(l.test_index)>>]
    ELSE [l |-> [l EXCEPT !.error = "exhausted"], h |-> "end", cmd |-> <<>>]

\* services.py:1316-1318, 1340-1342  the head of the search loop: wrap the
\* index and write it, or give up when the attempts are used up
CycleLoopHead(l) ==
    IF l.attempts < l.max
    THEN LET l2 == [l EXCEPT !.test_index = @ % IndexModulus]
         IN  [l |-> l2, h |-> "set_index",
              cmd |-> <<"Store Name", Fmt04(l2.test_index)>>]
    ELSE [l |-> [l EXCEPT !.error = "exhausted"], h |-> "end", cmd |-> <<>>]

\* services.py:1325-1338  the answer to Overwrite? is looked at
CycleAfterOverwrite(l, answer) ==
    IF answer = "None"
    THEN [l |-> [l EXCEPT !.new_index = l.test_index,
                          !.attempts_made = l.attempts,
                          !.last_overwrite = answer],
          h |-> "start", cmd |-> <<"Measure,Start">>]
    ELSE LET l2 == [l EXCEPT !.test_index = @ + 1, !.last_overwrite = answer]
         IN  IF l2.test_index = l2.current_index
             THEN [l |-> [l2 EXCEPT !.error = "full"], h |-> "end", cmd |-> <<>>]
             ELSE CycleLoopHead(l2)

\* services.py:1293-1350  start_cycle goes on after the command of step h
\* returned res with data line rep: the new locals, the next step and its
\* command. An error of the command leaves the cycle.
CycleStep(l, h, res, rep) ==
    IF res # "ok"
    THEN [l |-> [l EXCEPT !.error = "command"], h |-> "end", cmd |-> <<>>]
    ELSE CASE h = "clock" ->
                CycleGetIndex([l EXCEPT !.clock_synced = TRUE])
           [] h = "get_index" ->
                CycleLoopHead([l EXCEPT !.current_index = ParseInt(rep),
                                        !.old_index = ParseInt(rep),
                                        !.test_index = ParseInt(rep) + 1,
                                        !.attempts = 0])
           [] h = "set_index" ->
                [l |-> [l EXCEPT !.attempts = @ + 1], h |-> "overwrite",
                 cmd |-> <<"Overwrite?">>]
           [] h = "overwrite" ->
                CycleAfterOverwrite(l, rep)
           [] h = "start" ->
                [l |-> [l EXCEPT !.started = TRUE], h |-> "end", cmd |-> <<>>]

\* services.py:1293-1308  start_cycle is called: the clock command when
\* sync_clock, else the Store Name query
CycleFirst(l) ==
    IF l.sync THEN [l |-> l, h |-> "clock", cmd |-> <<"Clock">>]
    ELSE CycleGetIndex(l)

\* services.py:1282-1308  start_cycle is called by task t
StartCycle(t) ==
    LET n == CycleFirst(loc[t])
    IN  /\ kind[t] = "cycle"
        /\ pc[t] = "idle"
        /\ loc' = [loc EXCEPT ![t] = n.l]
        /\ hstep' = [hstep EXCEPT ![t] = n.h]
        /\ cmd' = [cmd EXCEPT ![t] = n.cmd]
        /\ pc' = [pc EXCEPT ![t] = "call"]
        /\ UNCHANGED <<dbVars, req, askedIndex>>
        /\ UNCHANGED <<now, lockVars, rateVars, kind, dev, wakeAt, result,
                       reply, wireVars, deviceVars>>

\* services.py:1299-1350  a command of the cycle has returned
CycleReturn(t) ==
    LET n == CycleStep(loc[t], hstep[t], result[t], reply[t])
    IN  /\ kind[t] = "cycle"
        /\ pc[t] = "returned"
        /\ loc' = [loc EXCEPT ![t] = n.l]
        /\ hstep' = [hstep EXCEPT ![t] = n.h]
        /\ cmd' = [cmd EXCEPT ![t] = IF n.h = "end" THEN @ ELSE n.cmd]
        /\ pc' = [pc EXCEPT ![t] = IF n.h = "end" THEN "done" ELSE "call"]
        /\ UNCHANGED <<dbVars, req, askedIndex>>
        /\ UNCHANGED <<now, lockVars, rateVars, kind, dev, wakeAt, result,
                       reply, wireVars, deviceVars>>

(***************************************************************************)
(* Time.                                                                   *)
(***************************************************************************)
Sleeping(t) == pc[t] \in {"rl_sleep", "diag_sleep"}

Pending(t) == pc[t] \in {"idle", "connecting", "await_reply", "streaming",
                         "diag_connecting", "stream_drain", "stream_closing"}

\* half a second passes: no sleep that is over is slept on, and the clock
\* runs past MaxTime only to end a sleep
Tick ==
    /\ \A t \in Tasks : Sleeping(t) => now < wakeAt[t]
    /\ \/ \E t \in Tasks : Sleeping(t)
       \/ now < MaxTime /\ \E t \in Tasks : Pending(t)
    /\ now' = now + 1
    /\ UNCHANGED <<lockVars, rateVars, taskVars, askedIndex, wireVars, deviceVars,
                   dbVars>>

(***************************************************************************)
(* The status rows (nl43_status) and the merge of a snapshot into them.    *)
(***************************************************************************)
\* measurement_start_time IS NULL
NoTime == -1

\* models.py:55  last_error: None, or the text of the error of a poll
NoError == ""
PollError == "poll"

\* no row for the unit in nl43_status; the fields are those of a row
NoRow ==
    [exists |-> FALSE, measurement_state |-> "unknown",
     measurement_start_time |-> NoTime, is_reachable |-> TRUE,
     consecutive_failures |-> 0, start_time_sync_attempted |-> FALSE,
     last_error |-> NoError, last_poll_attempt |-> NoTime,
     last_success |-> NoTime]

\* models.py:36-52  NL43Status(unit_id=...) once inserted: the column
\* defaults
NewRow == [NoRow EXCEPT !.exists = TRUE]

\* services.py:57-60, routers.py:282-285  the row of the unit, made if absent
RowOf(d) == IF status[d].exists THEN status[d] ELSE NewRow

\* services.py:366-371, 632  the measurement_state a snapshot carries: the
\* answer to Measure?, or "Measure" (DRD lines, and DOD when Measure? failed)
SnapStates == {"Start", "Stop", "Measure"}

\* the merge had the start time been stamped on every snapshot that says
\* "Start"
MergedRowRestamp(r, prev, new_state, t) ==
    [r EXCEPT !.measurement_start_time =
                  IF new_state = "Start" THEN t
                  ELSE IF prev = "Start" THEN NoTime ELSE @,
              !.measurement_state = new_state]

\* services.py:64-96  persist_snapshot: the row r, whose state was prev,
\* after the snapshot with new_state is merged at time t
MergedRow(r, prev, new_state, t) ==
    LET is_measuring == new_state = "Start"
        was_measuring == prev = "Start"
    IN  [r EXCEPT !.measurement_start_time =
                      IF ~was_measuring /\ is_measuring THEN t
                      ELSE IF was_measuring /\ ~is_measuring THEN NoTime
                      ELSE @,
                  !.measurement_state = new_state]

\* services.py:65  previous_state: None for a row just made
PreviousState(d) ==
    IF status[d].exists THEN status[d].measurement_state ELSE "none"

\* the merge had it written the state and left the start time as it was
PersistedRowUnstamped(d, new_state) ==
    [RowOf(d) EXCEPT !.measurement_state = new_state]

\* services.py:54-98  persist_snapshot on unit d at time now, its
\* db.commit() going through
PersistedRow(d, new_state) ==
    MergedRow(RowOf(d), PreviousState(d), new_state, now)

\* the states of the scenario of five merges: Stop, Stop, Start, Start, Stop
Scenario == <<"Stop", "Stop", "Start", "Start", "Stop">>

\* how many merges hist keeps
HistLen == Len(Scenario)

\* the merges in a row of unit d after one more of them
Remembered(d, row) ==
    LET h == Append(hist[d], [state |-> row.measurement_state, at |-> now,
                              start |-> row.measurement_start_time])
    IN  IF Len(h) > HistLen THEN Tail(h) ELSE h

\* the units the requests and the poller of the status runs act on
Units == {"d1"}

\* services.py:54-98  a snapshot of unit d that carries new_state is merged
MergeState(d, new_state) ==
    /\ LET row == PersistedRow(d, new_state)
       IN  /\ status' = [status EXCEPT ![d] = row]
           /\ hist' = [hist EXCEPT ![d] = Remembered(d, row)]
    /\ UNCHANGED <<extVars, polled, sessionSyncs, pollpc, failStreak, now, lockVars, rateVars, taskVars,
                   askedIndex, wireVars, deviceVars>>

\* routers.py:703-718  live_status: the snapshot of request_dod is merged
MergeSnapshot(d) == \E new_state \in SnapStates : MergeState(d, new_state)

\* services.py:64-91, device_logger.py:108-122  what a merge whose final
\* db.commit() raises leaves of the row of unit d. On a transition the
\* start time is set or cleared and log_device_event is called with the
\* session of the merge: its db.commit() (logged) commits the row as it
\* stands, made if absent, and the rollback of the merge undoes only what
\* came after; if it fails, log_device_event rolls everything back itself
FailedMergeRow(d, new_state, logged) ==
    LET prev == PreviousState(d)
        merged == MergedRow(RowOf(d), prev, new_state, now)
    IN  IF (prev = "Start") # (new_state = "Start") /\ logged
        THEN [RowOf(d) EXCEPT
                 !.measurement_start_time = merged.measurement_start_time]
        ELSE status[d]

\* services.py:54-113  persist_snapshot of a snapshot of unit d whose
\* db.commit() raises: rollback, and the exception goes to the caller
MergeFails(d) ==
    /\ \E new_state \in SnapStates, logged \in BOOLEAN :
         LET row == FailedMergeRow(d, new_state, logged)
         IN  /\ status' = [status EXCEPT ![d] = row]
             /\ hist' = [hist EXCEPT ![d] = IF row = status[d] THEN @ ELSE <<>>]
    /\ UNCHANGED <<extVars, polled, sessionSyncs, pollpc, failStreak, now, lockVars, rateVars,
                   taskVars, askedIndex, wireVars, deviceVars>>

\* routers.py:266-277  the measurement_state of a StatusPayload, "none"
\* when the field is left out
PayloadStates == {"none", "Start", "Stop"}

\* routers.py:280-293  POST status: the fields of the payload are written
\* to the row
UpsertStatus(d) ==
    /\ \E value \in PayloadStates :
         status' = [status EXCEPT ![d] =
                       IF value = "none" THEN RowOf(d)
                       ELSE [RowOf(d) EXCEPT !.measurement_state = value]]
    /\ hist' = [hist EXCEPT ![d] = <<>>]
    /\ UNCHANGED <<extVars, polled, sessionSyncs, pollpc, failStreak, now, lockVars, rateVars, taskVars,
                   askedIndex, wireVars, deviceVars>>

\* routers.py:785-790, services.py:196-200  the start time is set from the
\* time stamp of the newest folder on the FTP server, if the row exists
SyncedRow(r, start_time) ==
    IF r.exists THEN [r EXCEPT !.measurement_start_time = start_time] ELSE r

\* routers.py:747-810  POST sync-start-time
SyncStartTime(d) ==
    /\ status[d].exists
    /\ \E start_time \in Epoch..now :
         status' = [status EXCEPT ![d] = SyncedRow(@, start_time)]
    /\ hist' = [hist EXCEPT ![d] = <<>>]
    /\ UNCHANGED <<extVars, polled, sessionSyncs, pollpc, failStreak, now, lockVars, rateVars, taskVars,
                   askedIndex, wireVars, deviceVars>>

(***************************************************************************)
(* The background poller (BackgroundPoller._poll_device).                  *)
(***************************************************************************)
\* the most failed polls in a row the model follows
MaxFailures == 5

\* background_poller.py:291  "if status.consecutive_failures >= 3"
UnreachableAfter == 3

\* the poller between two polls
PollerIdle == [at |-> "idle", unit |-> "none"]

\* the failure branch had the unit been marked only past the third failure
FailedPollRowLate(r) ==
    LET n == r.consecutive_failures + 1
    IN  [r EXCEPT !.consecutive_failures = n,
                  !.last_error = PollError,
                  !.is_reachable = IF n > UnreachableAfter THEN FALSE ELSE @]

\* background_poller.py:284-304  the failure branch of _poll_device
FailedPollRow(r) ==
    LET n == r.consecutive_failures + 1
    IN  [r EXCEPT !.consecutive_failures = n,
                  !.last_error = PollError,
                  !.is_reachable = IF n >= UnreachableAfter THEN FALSE ELSE @]

\* background_poller.py:211-216  the poll succeeded
ReachableRow(r) ==
    [r EXCEPT !.is_reachable = TRUE, !.consecutive_failures = 0,
              !.last_success = now, !.last_error = NoError]

\* background_poller.py:244-250  the start time is to be fetched over FTP
SyncDue(r, ftp_configured) ==
    /\ r.measurement_state = "Start"
    /\ r.measurement_start_time = NoTime
    /\ ~r.start_time_sync_attempted
    /\ ftp_configured

FlaggedRowUnraised(r, ftp_configured) ==
    IF r.measurement_state # "Start"
    THEN [r EXCEPT !.start_time_sync_attempted = FALSE]
    ELSE r

\* background_poller.py:229-260  the sync flag after a successful poll:
\* dropped when the unit is not measuring, raised when the sync is started
FlaggedRow(r, ftp_configured) ==
    IF r.measurement_state # "Start"
    THEN [r EXCEPT !.start_time_sync_attempted = FALSE]
    ELSE IF SyncDue(r, ftp_configured)
         THEN [r EXCEPT !.start_time_sync_attempted = TRUE]
         ELSE r

MaxSyncs == 2

\* background_poller.py:205-260  the syncs begun in a run of successful polls
\* that see "Start": a poll that sees another state ends the run
SessionCount(n, r, ftp_configured) ==
    IF r.measurement_state # "Start" THEN 0
    ELSE IF SyncDue(r, ftp_configured) /\ n < MaxSyncs THEN n + 1
    ELSE n

\* the row had the attempt not been stamped before the poll
AttemptedRowUnstamped(r) == r

\* background_poller.py:189-190  status.last_poll_attempt = utcnow()
AttemptedRow(r) == [r EXCEPT !.last_poll_attempt = now]

\* background_poller.py:130-132, 180-205  _poll_device: the row is made if
\* absent, last_poll_attempt committed, and request_dod awaited
PollBegin(d) ==
    /\ pollpc.at = "idle"
    /\ d \in configs
    /\ status' = [status EXCEPT ![d] = AttemptedRow(RowOf(d))]
    /\ polled' = polled \cup {d}
    /\ pollpc' = [at |-> "polling", unit |-> d]
    /\ UNCHANGED <<extVars, sessionSyncs, hist, failStreak, now, lockVars, rateVars, taskVars,
                   askedIndex, wireVars, deviceVars>>

\* services.py:441-449  what get_measurement_state returns
MeasureAnswers == {"Start", "Stop"}

\* request_dod had it answered "Stop" when the Measure? query raised
DodStateStopped(res, answer) == IF res = "ok" THEN answer ELSE "Stop"

\* services.py:364-371  the measurement_state of the snapshot request_dod
\* returns: the answer to Measure?, "Measure" when that query raised
DodState(res, answer) == IF res = "ok" THEN answer ELSE "Measure"

\* background_poller.py:205-260  request_dod returned a snapshot that
\* carries new_state and it was merged
PollMerged(d, new_state) ==
    /\ pollpc = [at |-> "polling", unit |-> d]
    /\ \E ftp_configured \in BOOLEAN :
         LET row == PersistedRow(d, new_state)
             merged == ReachableRow(row)
         IN  /\ status' = [status EXCEPT ![d] =
                              FlaggedRow(merged, ftp_configured)]
             /\ hist' = [hist EXCEPT ![d] = Remembered(d, row)]
             /\ pollpc' = IF SyncDue(merged, ftp_configured)
                          THEN [at |-> "syncing", unit |-> d]
                          ELSE PollerIdle
             /\ sessionSyncs' = [sessionSyncs EXCEPT ![d] =
                                    SessionCount(@, merged, ftp_configured)]
    /\ failStreak' = [failStreak EXCEPT ![d] = 0]
    /\ UNCHANGED <<extVars, polled, now, lockVars, rateVars, taskVars, askedIndex, wireVars,
                   deviceVars>>

\* background_poller.py:205-260  request_dod returned a snapshot and it was
\* merged
PollSuccess(d) == \E new_state \in SnapStates : PollMerged(d, new_state)

\* services.py:364-366, background_poller.py:205-260  DOD? and Measure?
\* were both answered
PollStateAnswered(d) ==
    \E answer \in MeasureAnswers :
        PollMerged(d, DodState("ok", answer))

\* services.py:367-371, background_poller.py:205-260  DOD? was answered and
\* the Measure? query after it raised
PollStateFailed(d) ==
    \E res \in Outcomes \ {"ok"}, answer \in MeasureAnswers :
        PollMerged(d, DodState(res, answer))

\* background_poller.py:262-282  sync_measurement_start_time_from_ftp
\* returned: True with the start time written, or False, or it raised
PollSynced(d) ==
    /\ pollpc = [at |-> "syncing", unit |-> d]
    /\ \E synced \in BOOLEAN, start_time \in Epoch..now :
         LET row == IF synced THEN SyncedRow(status[d], start_time)
                    ELSE status[d]
         IN  /\ status' = [status EXCEPT ![d] = row]
             /\ hist' = [hist EXCEPT ![d] =
                            IF row = status[d] THEN @ ELSE <<>>]
    /\ pollpc' = PollerIdle
    /\ UNCHANGED <<extVars, polled, sessionSyncs, failStreak, now, lockVars, rateVars, taskVars, askedIndex,
                   wireVars, deviceVars>>

\* background_poller.py:203-205, 284-304  request_dod raised
PollFail(d) ==
    /\ pollpc = [at |-> "polling", unit |-> d]
    /\ status[d].consecutive_failures < MaxFailures
    /\ status' = [status EXCEPT ![d] = FailedPollRow(@)]
    /\ failStreak' = [failStreak EXCEPT ![d] = @ + 1]
    /\ pollpc' = PollerIdle
    /\ sessionSyncs' = [sessionSyncs EXCEPT ![d] = 0]
    /\ UNCHANGED <<extVars, polled, hist, now, lockVars, rateVars, taskVars, askedIndex,
                   wireVars, deviceVars>>

\* background_poller.py:291-302  the failure branch calls log_device_event:
\* below the third failure, and at the failure that takes a reachable unit
\* to unreachable
FailureLogged(r) ==
    \/ r.consecutive_failures + 1 < UnreachableAfter
    \/ r.is_reachable

\* background_poller.py:286-296, device_logger.py:108-116  the row that the
\* db.commit() of log_device_event stores, on the session of the poller: the
\* counter and last_error are written, is_reachable is not yet
LoggedFailRow(r) ==
    [r EXCEPT !.consecutive_failures = @ + 1, !.last_error = PollError]

\* background_poller.py:291-297, 304  the row that the last db.commit() of
\* the failure branch stores
MarkedRow(r) ==
    [r EXCEPT !.is_reachable =
                  IF r.consecutive_failures >= UnreachableAfter THEN FALSE
                  ELSE @]

\* background_poller.py:284-302  request_dod raised and the failure is
\* logged: log_device_event commits the row
PollFailLogged(d) ==
    /\ pollpc = [at |-> "polling", unit |-> d]
    /\ status[d].consecutive_failures < MaxFailures
    /\ FailureLogged(status[d])
    /\ status' = [status EXCEPT ![d] = LoggedFailRow(@)]
    /\ pollpc' = [at |-> "failing", unit |-> d]
    /\ UNCHANGED <<extVars, polled, sessionSyncs, hist, failStreak, now,
                   lockVars, rateVars, taskVars, askedIndex, wireVars,
                   deviceVars>>

\* background_poller.py:297-304  after the log: is_reachable is written
\* and the failure branch commits
PollFailStored(d) ==
    /\ pollpc = [at |-> "failing", unit |-> d]
    /\ status' = [status EXCEPT ![d] = MarkedRow(@)]
    /\ failStreak' = [failStreak EXCEPT ![d] = @ + 1]
    /\ pollpc' = PollerIdle
    /\ sessionSyncs' = [sessionSyncs EXCEPT ![d] = 0]
    /\ UNCHANGED <<extVars, polled, hist, now, lockVars, rateVars, taskVars,
                   askedIndex, wireVars, deviceVars>>

\* background_poller.py:284-304  request_dod raised for a unit that is
\* unreachable already: nothing is logged, and the branch commits once
PollFailUnlogged(d) ==
    /\ ~FailureLogged(status[d])
    /\ PollFail(d)

\* half a second passes between the requests
TickDb ==
    /\ now < MaxTime
    /\ now' = now + 1
    /\ UNCHANGED <<dbVars, lockVars, rateVars, taskVars, askedIndex, wireVars,
                   deviceVars>>

(***************************************************************************)
(* The gateway with its concurrent callers.                                *)
(***************************************************************************)
\* routers.py:1335-1347  PUT index-number, the index another caller sets
OtherIndex == 20

\* the commands of the single-command requests of a run
Battery == <<"Battery Level?">>
SetIndex == <<"Store Name", Fmt04(OtherIndex)>>

\* the callers of a run: what each task runs, on which device, and the
\* command of a single-command request
Scenarios ==
    { [kind |-> <<"cmd", "cmd", "none">>, dev |-> <<"d1", "d1", "d1">>,
       req |-> <<Battery, Battery, Battery>>],
      [kind |-> <<"cmd", "cmd", "none">>, dev |-> <<"d1", "d2", "d1">>,
       req |-> <<Battery, Battery, Battery>>],
      [kind |-> <<"cycle", "cmd", "none">>, dev |-> <<"d1", "d1", "d1">>,
       req |-> <<Battery, SetIndex, Battery>>],
      [kind |-> <<"stream", "diag", "none">>, dev |-> <<"d1", "d1", "d1">>,
       req |-> <<Battery, Battery, Battery>>],
      [kind |-> <<"stream", "cmd", "none">>, dev |-> <<"d1", "d1", "d1">>,
       req |-> <<Battery, Battery, Battery>>],
      [kind |-> <<"diag", "cmd", "none">>, dev |-> <<"d1", "d2", "d1">>,
       req |-> <<Battery, Battery, Battery>>] }

\* the Store Name the devices start with, and how many indices after it
\* hold data
StartIndex == 7
StartOccupied == 1


\* models.py:15, 23-24  the polling fields of a config: the column defaults
DefaultPolling ==
    [tcp_enabled |-> TRUE, poll_enabled |-> TRUE, poll_interval_seconds |-> 60]

\* the state of the process after start-up, before any request
Quiet ==
    /\ now = Epoch
    /\ last_command_time = [d \in Devices |-> 0]
    /\ device_locks = {}
    /\ lockHolder = [d \in Devices |-> NoTask]
    /\ lockWaiters = [d \in Devices |-> <<>>]
    /\ rlHolder = NoTask
    /\ rlWaiters = <<>>
    /\ wakeAt = [t \in Tasks |-> 0]
    /\ cmd = [t \in Tasks |-> <<>>]
    /\ result = [t \in Tasks |-> "none"]
    /\ reply = [t \in Tasks |-> "R"]
    /\ hstep = [t \in Tasks |-> "none"]
    /\ askedIndex = [t \in Tasks |-> NoIndex]
    /\ conns = [d \in Devices |-> {}]
    /\ lastSend = [d \in Devices |-> -1]
    /\ prevSend = [d \in Devices |-> -1]
    /\ status = [d \in Devices |-> NoRow]
    /\ pollpc = PollerIdle
    /\ hist = [d \in Devices |-> <<>>]
    /\ failStreak = [d \in Devices |-> 0]
    /\ calledAt = [t \in Tasks |-> 0]
    /\ subTried = [t \in Tasks |-> FALSE]
    /\ polled = {}
    /\ sessionSyncs = [d \in Devices |-> 0]
    /\ running = FALSE
    /\ loopAt = "none"
    /\ stopAt = "none"
    /\ stopSince = 0
    /\ cycles = 0
    /\ configs = Devices
    /\ streamOpen = {}
    /\ cycleNow = NoTime
    /\ skipped = {}

Init ==
    /\ Quiet
    /\ pollcfg = [d \in Devices |-> DefaultPolling]
    /\ \E sc \in Scenarios : kind = sc.kind /\ dev = sc.dev /\ req = sc.req
    /\ pc = [t \in Tasks |-> IF kind[t] = "none" THEN "done" ELSE "idle"]
    /\ loc = [t \in Tasks |-> NewCycle(FALSE, DefaultMaxAttempts)]
    /\ storeName = [d \in Devices |-> Fmt04(StartIndex)]
    /\ occBase = [d \in Devices |-> StartIndex]
    /\ occLen = [d \in Devices |-> StartOccupied]
    /\ ftpDir = [d \in Devices |-> <<>>]

Next ==
    \/ Tick
    \/ \E t \in Tasks :
         \/ CallCommand(t)
         \/ SendCommand(t)
         \/ EnforceRateLimit(t)
         \/ RateLimitGranted(t)
         \/ RateLimitWake(t)
         \/ Connect(t)
         \/ Reply(t)
         \/ CommandReturn(t)
         \/ StreamDrd(t)
         \/ StreamEnd(t)
         \/ StreamClose(t)
         \/ StreamRelease(t)
         \/ DiagOpen(t)
         \/ DiagConnected(t)
         \/ DiagClose(t)
         \/ DiagBattery(t)
         \/ DiagReturn(t)
         \/ StartCycle(t)
         \/ CycleReturn(t)

Spec == Init /\ [][Next]_vars

(***************************************************************************)
(* The start cycle alone with its device: every command of the cycle is    *)
(* exchanged in one step, no other caller, no clock.                       *)
(***************************************************************************)
\* the Store Names a lone cycle finds, how many indices after it hold
\* data, and the max_index_attempts it is called with
CycleStartIndices == {0, 7, 9999}
CycleOccupied == {0, 2, IndexModulus - 1, IndexModulus}
CycleMaxAttempts == {2, DefaultMaxAttempts, IndexModulus}

\* services.py:258-336  the command of the cycle's step is sent and
\* answered, and services.py:1299-1350 the cycle goes on with the answer
CycleExchange(t) ==
    LET d == dev[t]
        c == cmd[t]
    IN  /\ kind[t] = "cycle"
        /\ pc[t] = "call"
        /\ \E o \in Outcomes :
           \E applied \in (IF o = "timeout" THEN BOOLEAN ELSE {o = "ok"}) :
             LET rep == IF o = "ok" /\ IsQuery(c) THEN DeviceReply(d, c)
                        ELSE "R"
                 n == CycleStep(loc[t], hstep[t], o, rep)
             IN  /\ result' = [result EXCEPT ![t] = o]
                 /\ reply' = [reply EXCEPT ![t] = rep]
                 /\ storeName' = [storeName EXCEPT ![d] =
                                     IF applied THEN DeviceStoreName(d, c)
                                     ELSE @]
                 /\ askedIndex' = [askedIndex EXCEPT ![t] =
                                      IF o = "ok" /\ c[1] = "Overwrite?"
                                      THEN ParseInt(storeName[d]) ELSE @]
                 /\ loc' = [loc EXCEPT ![t] = n.l]
                 /\ hstep' = [hstep EXCEPT ![t] = n.h]
                 /\ cmd' = [cmd EXCEPT ![t] = IF n.h = "end" THEN @ ELSE n.cmd]
                 /\ pc' = [pc EXCEPT ![t] =
                              IF n.h = "end" THEN "done" ELSE "call"]
        /\ UNCHANGED <<dbVars, req, now, lockVars, rateVars, kind, dev, wakeAt,
                       wireVars, occBase, occLen, ftpDir>>

InitCycle ==
    /\ Quiet
    /\ pollcfg = [d \in Devices |-> DefaultPolling]
    /\ kind = [t \in Tasks |-> IF t = 1 THEN "cycle" ELSE "none"]
    /\ dev = [t \in Tasks |-> "d1"]
    /\ req = [t \in Tasks |-> Battery]
    /\ pc = [t \in Tasks |-> IF t = 1 THEN "idle" ELSE "done"]
    /\ \E sync \in BOOLEAN, max \in CycleMaxAttempts :
         loc = [t \in Tasks |-> NewCycle(sync, max)]
    /\ \E i \in CycleStartIndices, n \in CycleOccupied :
         /\ storeName = [d \in Devices |-> Fmt04(i)]
         /\ occBase = [d \in Devices |-> i]
         /\ occLen = [d \in Devices |-> n]
         /\ ftpDir = [d \in Devices |-> <<>>]

NextCycle == \E t \in Tasks : StartCycle(t) \/ CycleExchange(t)

SpecCycle == InitCycle /\ [][NextCycle]_vars

(***************************************************************************)
(* The result code of one command (_send_command_unlocked).                *)
(***************************************************************************)
\* services.py:295-300  the first line the device sends, decoded and
\* stripped: some "$" prompts and the text after them
ResultCodes == {"R+0000", "R+0001", "R+0002", "R+0003", "R+0004", "R+0005",
                "", "Battery"}
Prompts == {0, 1, 2}
FirstLines == [prompt : Prompts, code : ResultCodes]

\* services.py:299-300  one leading "$" is removed; the text that is left
\* is the result code, "$..." when a second prompt stood before it
ResultCode(line) ==
    LET left == IF line.prompt > 0 THEN line.prompt - 1 ELSE 0
    IN  IF left = 0 THEN line.code ELSE "$"

\* the error of a result code had R+0004 been taken for an unknown code
ErrorOfNoStatus(code) ==
    CASE code = "R+0000" -> "none"
      [] code = "R+0001" -> "Command error"
      [] code = "R+0002" -> "Parameter error"
      [] code = "R+0003" -> "Spec/type error"
      [] OTHER -> "Unknown result code"

\* services.py:305-325  the ValueError raised for a result code, "none" for
\* R+0000
ErrorOf(code) ==
    CASE code = "R+0000" -> "none"
      [] code = "R+0001" -> "Command error"
      [] code = "R+0002" -> "Parameter error"
      [] code = "R+0003" -> "Spec/type error"
      [] code = "R+0004" -> "Status error"
      [] OTHER -> "Unknown result code"

\* the locals of _send_command_unlocked before the first line is read
NewCall ==
    [first_line |-> [prompt |-> 0, code |-> ""], result_code |-> "",
     data_read |-> FALSE, error |-> "none"]

\* services.py:295-325  the locals once the first line is looked at: the
\* data line is read after R+0000 of a command that ends in "?"
CallLocals(line, c) ==
    LET code == ResultCode(line)
    IN  [first_line |-> line, result_code |-> code,
         data_read |-> (code = "R+0000" /\ IsQuery(c)),
         error |-> ErrorOf(code)]

\* services.py:294-336  the first line arrives at a single-command call: it
\* returns the data line or the result code, or raises; the connection is
\* closed and the device lock left either way
ReadResult(t) ==
    LET d == dev[t]
        c == cmd[t]
    IN  /\ kind[t] = "cmd"
        /\ pc[t] = "await_reply"
        /\ \E line \in FirstLines :
             LET l == CallLocals(line, c)
             IN  /\ loc' = [loc EXCEPT ![t] = l]
                 /\ result' = [result EXCEPT ![t] =
                                  IF l.error = "none" THEN "ok" ELSE "dev_err"]
                 /\ reply' = [reply EXCEPT ![t] =
                                 IF l.data_read THEN DeviceReply(d, c) ELSE "R"]
                 /\ storeName' = [storeName EXCEPT ![d] =
                                     IF l.error = "none"
                                     THEN DeviceStoreName(d, c) ELSE @]
        /\ conns' = [conns EXCEPT ![d] = @ \ {t}]
        /\ ReleaseDeviceLock(t, AfterExchange(t))
        /\ UNCHANGED <<dbVars, req, askedIndex>>
        /\ UNCHANGED <<now, rateVars, kind, dev, wakeAt, cmd, hstep, lastSend,
                       prevSend, occBase, occLen, ftpDir>>

\* the commands the lone caller sends: two queries and two setters
ResultCommands == {<<"Battery Level?">>, <<"Store Name?">>,
                   <<"Measure,Start">>, <<"Store Name", Fmt04(7)>>}

InitResult ==
    /\ Quiet
    /\ pollcfg = [d \in Devices |-> DefaultPolling]
    /\ kind = [t \in Tasks |-> IF t = 1 THEN "cmd" ELSE "none"]
    /\ dev = [t \in Tasks |-> "d1"]
    /\ \E c \in ResultCommands : req = [t \in Tasks |-> c]
    /\ pc = [t \in Tasks |-> IF t = 1 THEN "idle" ELSE "done"]
    /\ loc = [t \in Tasks |-> NewCall]
    /\ storeName = [d \in Devices |-> Fmt04(StartIndex)]
    /\ occBase = [d \in Devices |-> StartIndex]
    /\ occLen = [d \in Devices |-> StartOccupied]
    /\ ftpDir = [d \in Devices |-> <<>>]

NextResult ==
    \E t \in Tasks :
        \/ CallCommand(t)
        \/ SendCommand(t)
        \/ EnforceRateLimit(t)
        \/ Connect(t)
        \/ ReadResult(t)
        \/ CommandReturn(t)

SpecResult == InitResult /\ [][NextResult]_vars

(***************************************************************************)
(* The stop cycle alone with its device: every command of the cycle is     *)
(* exchanged in one step, no other caller, no clock.                       *)
(***************************************************************************)
\* services.py:1395-1396  ftp_ready_timeout and ftp_check_interval, seconds
FtpReadyTimeout == 30
FtpCheckInterval == 2

\* services.py:1369-1376, 1395-1398  the result dict and the locals of stop_cycle;
\* download_raised notes that download_ftp_folder raised, ftp_session how its
\* FTP session went, zip_written and zip_empty what it left at download_path
NewStop(download) ==
    [download |-> download, stopped |-> FALSE, ftp_enabled |-> FALSE,
     download_attempted |-> FALSE, download_success |-> FALSE,
     downloaded_folder |-> NoIndex, download_error |-> FALSE,
     elapsed |-> 0, ftp_ready |-> FALSE, download_raised |-> FALSE,
     ftp_session |-> "none", zip_written |-> FALSE, zip_empty |-> FALSE,
     error |-> "none"]

\* services.py:1407  ftp_status.lower() == "on"
Lower(text) == CASE text = "On" -> "on" [] text = "Off" -> "off" [] OTHER -> text

\* services.py:1413-1423  after the wait for the FTP server: ftp_enabled is
\* set whether the server was seen ready or not, and the cycle returns here
\* when download is False
StopAfterWait(l) ==
    LET l2 == [l EXCEPT !.ftp_enabled = TRUE]
    IN  IF l2.download
        THEN [l |-> l2, h |-> "get_index", cmd |-> <<"Store Name?">>]
        ELSE [l |-> l2, h |-> "end", cmd |-> <<>>]

\* services.py:1401-1405  the head of the waiting loop: sleep and ask FTP?
\* while elapsed < ftp_ready_timeout
StopWaitHead(l) ==
    IF l.elapsed < FtpReadyTimeout
    THEN [l |-> [l EXCEPT !.elapsed = @ + FtpCheckInterval],
          h |-> "ftp_check", cmd |-> <<"FTP?">>]
    ELSE StopAfterWait(l)

\* services.py:1378-1432  stop_cycle goes on after the command of step h
\* returned res with data line rep: Measure,Stop, FTP,On and the Store Name
\* query raise their error, FTP,Off and FTP? do not
StopStep(l, h, res, rep) ==
    CASE h = "stop" ->
           IF res # "ok"
           THEN [l |-> [l EXCEPT !.error = "command"], h |-> "end", cmd |-> <<>>]
           ELSE [l |-> [l EXCEPT !.stopped = TRUE], h |-> "ftp_off",
                 cmd |-> <<"FTP,Off">>]
      [] h = "ftp_off" ->
           [l |-> l, h |-> "ftp_on", cmd |-> <<"FTP,On">>]
      [] h = "ftp_on" ->
           IF res # "ok"
           THEN [l |-> [l EXCEPT !.error = "command"], h |-> "end", cmd |-> <<>>]
           ELSE StopWaitHead(l)
      [] h = "ftp_check" ->
           IF res = "ok" /\ Lower(rep) = "on"
           THEN StopAfterWait([l EXCEPT !.ftp_ready = TRUE])
           ELSE StopWaitHead(l)
      [] h = "get_index" ->
           IF res # "ok"
           THEN [l |-> [l EXCEPT !.error = "command"], h |-> "end", cmd |-> <<>>]
           ELSE [l |-> [l EXCEPT !.downloaded_folder = ParseInt(rep),
                                 !.download_attempted = TRUE],
                 h |-> "download", cmd |-> <<>>]

\* services.py:1378-1381  stop_cycle is called by task t
StopCycle(t) ==
    /\ kind[t] = "stop_cycle"
    /\ pc[t] = "idle"
    /\ hstep' = [hstep EXCEPT ![t] = "stop"]
    /\ cmd' = [cmd EXCEPT ![t] = <<"Measure,Stop">>]
    /\ pc' = [pc EXCEPT ![t] = "call"]
    /\ UNCHANGED <<dbVars, req, askedIndex, loc>>
    /\ UNCHANGED <<now, lockVars, rateVars, kind, dev, wakeAt, result, reply,
                   wireVars, deviceVars>>

\* services.py:847-854  what the device answers to FTP?
FtpAnswers == {"On", "Off"}

\* services.py:258-336  the command of the cycle's step is sent and
\* answered, and services.py:1378-1432 the cycle goes on with the answer
StopExchange(t) ==
    LET d == dev[t]
        c == cmd[t]
    IN  /\ kind[t] = "stop_cycle"
        /\ pc[t] = "call"
        /\ \E o \in Outcomes, ftp_status \in FtpAnswers :
             LET rep == IF o = "ok" /\ IsQuery(c)
                        THEN (IF c[1] = "FTP?" THEN ftp_status
                              ELSE DeviceReply(d, c))
                        ELSE "R"
                 n == StopStep(loc[t], hstep[t], o, rep)
             IN  /\ result' = [result EXCEPT ![t] = o]
                 /\ reply' = [reply EXCEPT ![t] = rep]
                 /\ loc' = [loc EXCEPT ![t] = n.l]
                 /\ hstep' = [hstep EXCEPT ![t] = n.h]
                 /\ cmd' = [cmd EXCEPT ![t] =
                               IF n.cmd = <<>> THEN @ ELSE n.cmd]
                 /\ pc' = [pc EXCEPT ![t] =
                              IF n.h = "end" THEN "done"
                              ELSE IF n.h = "download" THEN "downloading"
                              ELSE "call"]
        /\ UNCHANGED <<dbVars, req, askedIndex, now, lockVars, rateVars, kind,
                       dev, wakeAt, wireVars, deviceVars>>

\* the result had the failure of the download been raised to the caller
StopDownloadedRaised(l, ok) ==
    IF ok THEN [l EXCEPT !.download_success = TRUE]
    ELSE [l EXCEPT !.download_raised = TRUE, !.error = "download"]

\* services.py:1443-1451  the result after download_ftp_folder returned
\* (ok) or raised: the error is put into the result
StopDownloaded(l, ok) ==
    IF ok THEN [l EXCEPT !.download_success = TRUE]
    ELSE [l EXCEPT !.download_raised = TRUE, !.download_error = TRUE]

\* services.py:1143-1190  how the FTP session of download_ftp_folder can go:
\* connect or login raises, the listing of the top-level folder fails (no
\* such folder, or the data channel times out), the folder is listed and
\* holds no file, the folder is listed and its files are fetched
FtpSessions == {"refused", "unlisted", "empty", "files"}

\* download_ftp_folder had it raised when the top-level folder cannot be
\* listed
DownloadFtpFolderStrict(ftp) ==
    [raised |-> ftp \in {"refused", "unlisted"},
     zip_written |-> ftp \in {"empty", "files"},
     zip_empty |-> ftp = "empty"]

\* services.py:1143-1262  download_ftp_folder: an exception of connect or
\* login leaves as ConnectionError before any ZIP is made; a listing that
\* fails makes download_recursive return with nothing fetched, and the ZIP
\* is written from what was fetched
DownloadFtpFolder(ftp) ==
    [raised |-> ftp = "refused",
     zip_written |-> ftp # "refused",
     zip_empty |-> ftp \in {"unlisted", "empty"}]

\* services.py:1443-1454  download_ftp_folder is over and stop_cycle returns
StopDownload(t) ==
    /\ kind[t] = "stop_cycle"
    /\ pc[t] = "downloading"
    /\ \E ftp \in FtpSessions :
         LET dl == DownloadFtpFolder(ftp)
         IN  loc' = [loc EXCEPT ![t] =
                        [StopDownloaded(@, ~dl.raised) EXCEPT
                            !.ftp_session = ftp,
                            !.zip_written = dl.zip_written,
                            !.zip_empty = dl.zip_empty]]
    /\ hstep' = [hstep EXCEPT ![t] = "end"]
    /\ pc' = [pc EXCEPT ![t] = "done"]
    /\ UNCHANGED <<dbVars, req, askedIndex, now, lockVars, rateVars, kind,
                   dev, wakeAt, cmd, result, reply, wireVars, deviceVars>>

InitStop ==
    /\ Quiet
    /\ pollcfg = [d \in Devices |-> DefaultPolling]
    /\ kind = [t \in Tasks |-> IF t = 1 THEN "stop_cycle" ELSE "none"]
    /\ dev = [t \in Tasks |-> "d1"]
    /\ req = [t \in Tasks |-> Battery]
    /\ pc = [t \in Tasks |-> IF t = 1 THEN "idle" ELSE "done"]
    /\ \E download \in BOOLEAN :
         loc = [t \in Tasks |-> NewStop(download)]
    /\ \E i \in CycleStartIndices :
         /\ storeName = [d \in Devices |-> Fmt04(i)]
         /\ occBase = [d \in Devices |-> i]
         /\ occLen = [d \in Devices |-> 0]
         /\ ftpDir = [d \in Devices |-> <<>>]

NextStop ==
    \E t \in Tasks : StopCycle(t) \/ StopExchange(t) \/ StopDownload(t)

SpecStop == InitStop /\ [][NextStop]_vars

(***************************************************************************)
(* The status rows with the requests and the poller that write them.       *)
(***************************************************************************)
\* no caller of the device client runs
InitStatus ==
    /\ Quiet
    /\ pollcfg = [d \in Devices |-> DefaultPolling]
    /\ kind = [t \in Tasks |-> "none"]
    /\ dev = [t \in Tasks |-> "d1"]
    /\ req = [t \in Tasks |-> Battery]
    /\ pc = [t \in Tasks |-> "done"]
    /\ loc = [t \in Tasks |-> NewCycle(FALSE, DefaultMaxAttempts)]
    /\ storeName = [d \in Devices |-> Fmt04(StartIndex)]
    /\ occBase = [d \in Devices |-> StartIndex]
    /\ occLen = [d \in Devices |-> StartOccupied]
    /\ ftpDir = [d \in Devices |-> <<>>]

\* the requests that write the status rows, and the clock
NextStatus ==
    \/ TickDb
    \/ \E d \in Units :
         \/ MergeSnapshot(d)
         \/ MergeFails(d)
         \/ UpsertStatus(d)
         \/ SyncStartTime(d)

SpecStatus == InitStatus /\ [][NextStatus]_vars

\* the poller beside the requests that write the status rows
NextPoll ==
    \E d \in Units :
        \/ PollBegin(d)
        \/ PollSuccess(d)
        \/ PollSynced(d)
        \/ PollFail(d)
        \/ MergeSnapshot(d)
        \/ UpsertStatus(d)

SpecPoll == InitStatus /\ [][NextPoll]_vars

(***************************************************************************)
(* The start-time sync from the FTP listing of /NL-43.                     *)
(***************************************************************************)
TicksPerHour == 3600 * TicksPerSecond

\* services.py:30-31  TIMEZONE_OFFSET, five hours behind UTC by default
TimezoneOffset == -5 * TicksPerHour

\* services.py:979-981  "dt.replace(year=dt.year - 1)"
Year == 365 * 24 * TicksPerHour

\* the most lines of a listing the model follows
MaxEntries == 2

\* services.py:970  now_local
LocalNow == now + TimezoneOffset

\* the local times the month, day, hour and minute of a line stand for once
\* the current year is put in: two in the past and one yet to come
LocalStamps == {LocalNow - 2, LocalNow - 1, LocalNow + 1}

\* services.py:951-966  a line of LIST: a directory or not, its time text
\* parseable or not, and the local time it stands for
Entries ==
    [is_dir : BOOLEAN, parseable : {TRUE}, modified : LocalStamps]
        \cup [is_dir : BOOLEAN, parseable : {FALSE}, modified : {0}]

Listings == UNION {[1..n -> Entries] : n \in 0..MaxEntries}

\* services.py:966-994  modified_timestamp of a line: None when the text
\* does not parse; otherwise the local time, a year earlier when it lies in
\* the future, less the offset of the timezone
ModifiedTimestamp(e) ==
    IF ~e.parseable THEN NoTime
    ELSE LET dt == IF e.modified > LocalNow THEN e.modified - Year
                   ELSE e.modified
         IN  dt - TimezoneOffset

\* services.py:176  "folders = [f for f in files if f.get('is_dir')]"
IsDir(e) == e.is_dir
Folders(files) == SelectSeq(files, IsDir)

\* services.py:183  folders.sort(key=modified_timestamp): the key of a line
\* that did not parse is None, and a sort of two or more keys compares each
\* of them with another, which raises TypeError for None
SortRaises(folders) ==
    /\ Len(folders) >= 2
    /\ \E i \in 1..Len(folders) : ~folders[i].parseable

\* services.py:183-185  folders[0] after the sort, newest first
LatestStamp(folders) ==
    LET stamps == {ModifiedTimestamp(folders[i]) : i \in 1..Len(folders)}
    IN  CHOOSE x \in stamps : \A y \in stamps : y <= x

\* services.py:160-216  the start time the sync writes, NoTime when it
\* returns False: no folders, the sort raised, or folders[0] has no
\* modified_timestamp
SyncedStartTime(files) ==
    LET folders == Folders(files)
    IN  IF folders = <<>> THEN NoTime
        ELSE IF SortRaises(folders) THEN NoTime
        ELSE LatestStamp(folders)

\* background_poller.py:262-282, services.py:160-216  the sync of the poller
\* with the listing the FTP server gives
SyncFromFtp(d) ==
    /\ pollpc = [at |-> "syncing", unit |-> d]
    /\ LET start_time == SyncedStartTime(ftpDir[d])
           row == IF start_time # NoTime
                  THEN SyncedRow(status[d], start_time)
                  ELSE status[d]
       IN  /\ status' = [status EXCEPT ![d] = row]
           /\ hist' = [hist EXCEPT ![d] = IF row = status[d] THEN @ ELSE <<>>]
    /\ pollpc' = PollerIdle
    /\ UNCHANGED <<extVars, polled, sessionSyncs, failStreak, now, lockVars,
                   rateVars, taskVars, askedIndex, wireVars, deviceVars>>

\* a unit with some listing on its FTP server, and no caller running
InitSync ==
    /\ Quiet
    /\ pollcfg = [d \in Devices |-> DefaultPolling]
    /\ kind = [t \in Tasks |-> "none"]
    /\ dev = [t \in Tasks |-> "d1"]
    /\ req = [t \in Tasks |-> Battery]
    /\ pc = [t \in Tasks |-> "done"]
    /\ loc = [t \in Tasks |-> NewCycle(FALSE, DefaultMaxAttempts)]
    /\ storeName = [d \in Devices |-> Fmt04(StartIndex)]
    /\ occBase = [d \in Devices |-> StartIndex]
    /\ occLen = [d \in Devices |-> StartOccupied]
    /\ \E files \in Listings :
         ftpDir = [d \in Devices |-> IF d \in Units THEN files ELSE <<>>]

NextSync ==
    \E d \in Units :
        \/ PollBegin(d)
        \/ PollSuccess(d)
        \/ SyncFromFtp(d)
        \/ UpsertStatus(d)

SpecSync == InitSync /\ [][NextSync]_vars

(***************************************************************************)
(* The configs (nl43_config) beside the writers of the status rows.        *)
(***************************************************************************)
\* routers.py:187-207  PUT config: the config of unit d is made if absent
UpsertConfig(d) ==
    /\ configs' = configs \cup {d}
    /\ UNCHANGED <<streamOpen, dueVars, running, loopAt, stopAt, stopSince, cycles,
                   calledAt, subTried, storeVars>>
    /\ UNCHANGED <<now, lockVars, rateVars, taskVars, askedIndex, wireVars,
                   deviceVars>>

\* routers.py:159-184  DELETE config: 404 without a config; the status row
\* of the unit, if there is one, and the config are deleted in one commit
DeleteConfig(d) ==
    /\ d \in configs
    /\ configs' = configs \ {d}
    /\ status' = [status EXCEPT ![d] = NoRow]
    /\ hist' = [hist EXCEPT ![d] = <<>>]
    /\ failStreak' = [failStreak EXCEPT ![d] = 0]
    /\ UNCHANGED <<pollpc, polled, sessionSyncs, streamOpen, dueVars, running, loopAt, stopAt,
                   stopSince, cycles, calledAt, subTried>>
    /\ UNCHANGED <<now, lockVars, rateVars, taskVars, askedIndex, wireVars,
                   deviceVars>>

\* routers.py:840-868  stream_live: the websocket is accepted and the
\* config of the unit found; stream_drd is awaited
StreamLiveBegin(d) ==
    /\ d \in configs
    /\ d \notin streamOpen
    /\ streamOpen' = streamOpen \cup {d}
    /\ UNCHANGED <<configs, dueVars, running, loopAt, stopAt, stopSince, cycles,
                   calledAt, subTried, storeVars>>
    /\ UNCHANGED <<now, lockVars, rateVars, taskVars, askedIndex, wireVars,
                   deviceVars>>

\* services.py:632  what the snapshot of a DRD line carries whatever the
\* device does
StreamState == "Measure"

\* the merge of a line had its snapshot carried the state of the device
StreamMergeOfState(d) ==
    /\ d \in streamOpen
    /\ MergeSnapshot(d)

\* routers.py:872-878, services.py:632-654  send_snapshot: the snapshot of
\* a line of the stream is merged
StreamMerge(d) ==
    /\ d \in streamOpen
    /\ MergeState(d, StreamState)

\* routers.py:906-934  stream_drd has returned or raised: the session and
\* the websocket are closed
StreamLiveEnd(d) ==
    /\ d \in streamOpen
    /\ streamOpen' = streamOpen \ {d}
    /\ UNCHANGED <<configs, dueVars, running, loopAt, stopAt, stopSince, cycles,
                   calledAt, subTried, storeVars>>
    /\ UNCHANGED <<now, lockVars, rateVars, taskVars, askedIndex, wireVars,
                   deviceVars>>

NextConfigs ==
    \/ TickDb
    \/ \E d \in Units :
         \/ UpsertConfig(d)
         \/ DeleteConfig(d)
         \/ StreamLiveBegin(d)
         \/ StreamMerge(d)
         \/ StreamLiveEnd(d)
         \/ UpsertStatus(d)

SpecConfigs == InitStatus /\ [][NextConfigs]_vars

\* a stream of the unit beside the other merges of snapshots, and the clock
NextStream ==
    \/ TickDb
    \/ \E d \in Units :
         \/ StreamLiveBegin(d)
         \/ StreamMerge(d)
         \/ StreamLiveEnd(d)
         \/ MergeSnapshot(d)

SpecStream == InitStatus /\ [][NextStream]_vars

\* the poller, whose request_dod asks DOD? and then Measure?, beside the
\* merges of live_status
NextDod ==
    \E d \in Units :
        \/ PollBegin(d)
        \/ PollStateAnswered(d)
        \/ PollStateFailed(d)
        \/ PollFail(d)
        \/ MergeSnapshot(d)

SpecDod == InitStatus /\ [][NextDod]_vars

\* the poller alone, with every commit of its failure branch
NextReach ==
    \E d \in Units :
        \/ PollBegin(d)
        \/ PollSuccess(d)
        \/ PollFailLogged(d)
        \/ PollFailStored(d)
        \/ PollFailUnlogged(d)

SpecReach == InitStatus /\ [][NextReach]_vars

(***************************************************************************)
(* Single-command calls for one device, issued together, under the         *)
(* scheduling of the event loop: a task that can run does run, time        *)
(* passes, and the device answers or the timeout ends the wait.            *)
(***************************************************************************)
InitCalls ==
    /\ Quiet
    /\ pollcfg = [d \in Devices |-> DefaultPolling]
    /\ kind = [t \in Tasks |-> "cmd"]
    /\ dev = [t \in Tasks |-> "d1"]
    /\ req = [t \in Tasks |-> Battery]
    /\ pc = [t \in Tasks |-> "idle"]
    /\ loc = [t \in Tasks |-> NewCycle(FALSE, DefaultMaxAttempts)]
    /\ storeName = [d \in Devices |-> Fmt04(StartIndex)]
    /\ occBase = [d \in Devices |-> StartIndex]
    /\ occLen = [d \in Devices |-> StartOccupied]
    /\ ftpDir = [d \in Devices |-> <<>>]

\* the steps of the single-command call of task t
CallStep(t) ==
    \/ CallCommand(t)
    \/ SendCommand(t)
    \/ EnforceRateLimit(t)
    \/ RateLimitWake(t)
    \/ Connect(t)
    \/ Reply(t)
    \/ CommandReturn(t)

NextCalls == Tick \/ \E t \in Tasks : CallStep(t)

FairCalls ==
    /\ InitCalls
    /\ [][NextCalls]_vars
    /\ WF_vars(Tick)
    /\ \A t \in Tasks : WF_vars(CallStep(t))

(***************************************************************************)
(* Properties of the gateway with its concurrent callers.                  *)
(***************************************************************************)
(* A single-command call made while a DRD stream holds the device lock.    *)
(***************************************************************************)
\* services.py:238  NL43Client(timeout=5.0): the timeout of a client, ticks
CommandTimeout == 5 * TicksPerSecond

\* how long the clock of these runs goes on: past the timeout of a call
\* made at the start
WaitHorizon == Epoch + CommandTimeout + 1

\* background_poller.py:107-110  the configs of a poll cycle, in the order
\* of the query
PollOrder == <<"d1", "d2">>

\* background_poller.py:123-134  the next config of the cycle after d, "" if
\* d is the last
NextConfig(d) ==
    LET i == CHOOSE k \in 1..Len(PollOrder) : PollOrder[k] = d
    IN  IF i < Len(PollOrder) THEN PollOrder[i + 1] ELSE ""

\* background_poller.py:104-134, 203-205, services.py:344  a poll cycle
\* starts: _poll_device of the first config awaits request_dod, which sends
\* DOD?
PollCycle(t) ==
    /\ kind[t] = "poll"
    /\ pc[t] = "idle"
    /\ dev' = [dev EXCEPT ![t] = PollOrder[1]]
    /\ cmd' = [cmd EXCEPT ![t] = <<"DOD?">>]
    /\ hstep' = [hstep EXCEPT ![t] = "dod"]
    /\ pc' = [pc EXCEPT ![t] = "call"]
    /\ UNCHANGED <<dbVars, req, askedIndex>>
    /\ UNCHANGED <<now, lockVars, rateVars, kind, wakeAt, result, reply, loc,
                   wireVars, deviceVars>>

\* services.py:344-371, background_poller.py:123-134, 203-304  a command of
\* request_dod returned to the poller. After the data of DOD? comes
\* Measure?; after Measure?, or when DOD? failed, _poll_device is over and
\* the loop goes to the next config
PollNext(t) ==
    /\ kind[t] = "poll"
    /\ pc[t] = "returned"
    /\ IF hstep[t] = "dod" /\ result[t] = "ok"
       THEN /\ cmd' = [cmd EXCEPT ![t] = <<"Measure?">>]
            /\ hstep' = [hstep EXCEPT ![t] = "state"]
            /\ pc' = [pc EXCEPT ![t] = "call"]
            /\ UNCHANGED dev
       ELSE IF NextConfig(dev[t]) = ""
       THEN /\ pc' = [pc EXCEPT ![t] = "done"]
            /\ hstep' = [hstep EXCEPT ![t] = "end"]
            /\ UNCHANGED <<cmd, dev>>
       ELSE /\ dev' = [dev EXCEPT ![t] = NextConfig(@)]
            /\ cmd' = [cmd EXCEPT ![t] = <<"DOD?">>]
            /\ hstep' = [hstep EXCEPT ![t] = "dod"]
            /\ pc' = [pc EXCEPT ![t] = "call"]
    /\ UNCHANGED <<dbVars, req, askedIndex>>
    /\ UNCHANGED <<now, lockVars, rateVars, kind, wakeAt, result, reply, loc,
                   wireVars, deviceVars>>

\* half a second passes, as in Tick, up to WaitHorizon. In these runs the
\* device answers a connect and a command within the half second: the time
\* passes while a stream reads and a caller waits for its lock, and in the
\* sleeps
TickWait ==
    /\ \A t \in Tasks : Sleeping(t) => now < wakeAt[t]
    /\ \/ \E t \in Tasks : Sleeping(t)
       \/ /\ now < WaitHorizon
          /\ \E t \in Tasks : pc[t] = "streaming"
          /\ \E t \in Tasks : pc[t] = "wait_lock"
    /\ now' = now + 1
    /\ UNCHANGED <<lockVars, rateVars, taskVars, askedIndex, wireVars, deviceVars,
                   dbVars>>

\* a DRD stream of device d1, and a single-command request to d1 or the
\* background poller
InitWait ==
    /\ Quiet
    /\ pollcfg = [d \in Devices |-> DefaultPolling]
    /\ kind \in {<<"stream", "cmd", "none">>, <<"stream", "poll", "none">>}
    /\ dev = <<"d1", "d1", "d1">>
    /\ req = <<Battery, Battery, Battery>>
    /\ pc = [t \in Tasks |-> IF kind[t] = "none" THEN "done" ELSE "idle"]
    /\ loc = [t \in Tasks |-> NewCycle(FALSE, DefaultMaxAttempts)]
    /\ storeName = [d \in Devices |-> Fmt04(StartIndex)]
    /\ occBase = [d \in Devices |-> StartIndex]
    /\ occLen = [d \in Devices |-> StartOccupied]
    /\ ftpDir = [d \in Devices |-> <<>>]

NextWait ==
    \/ TickWait
    \/ \E t \in Tasks :
         \/ CallCommand(t)
         \/ PollCycle(t)
         \/ PollNext(t)
         \/ SendCommand(t)
         \/ EnforceRateLimit(t)
         \/ RateLimitGranted(t)
         \/ RateLimitWake(t)
         \/ Connect(t)
         \/ Reply(t)
         \/ CommandReturn(t)
         \/ StreamDrd(t)
         \/ StreamEnd(t)
         \/ StreamClose(t)
         \/ StreamRelease(t)

SpecWait == InitWait /\ [][NextWait]_vars

(***************************************************************************)
(* The callers of every kind side by side: single commands, DRD streams,   *)
(* start cycles and the polls of the background poller.                    *)
(***************************************************************************)
\* what the tasks of a run are: the poller or a cycle, beside a stream or
\* a single command
MixKinds ==
    { <<"stream", "poll", "none">>, <<"cmd", "poll", "none">>,
      <<"stream", "cycle", "none">>, <<"cmd", "cycle", "none">> }

InitMix ==
    /\ Quiet
    /\ pollcfg = [d \in Devices |-> DefaultPolling]
    /\ kind \in MixKinds
    /\ dev = <<"d1", "d1", "d1">>
    /\ req = <<Battery, Battery, Battery>>
    /\ pc = [t \in Tasks |-> IF kind[t] = "none" THEN "done" ELSE "idle"]
    /\ loc = [t \in Tasks |-> NewCycle(FALSE, DefaultMaxAttempts)]
    /\ storeName = [d \in Devices |-> Fmt04(StartIndex)]
    /\ occBase = [d \in Devices |-> StartIndex]
    /\ occLen = [d \in Devices |-> StartOccupied]
    /\ ftpDir = [d \in Devices |-> <<>>]

NextMix ==
    \/ Tick
    \/ \E t \in Tasks :
         \/ CallCommand(t)
         \/ PollCycle(t)
         \/ PollNext(t)
         \/ StartCycle(t)
         \/ CycleReturn(t)
         \/ SendCommand(t)
         \/ EnforceRateLimit(t)
         \/ RateLimitGranted(t)
         \/ RateLimitWake(t)
         \/ Connect(t)
         \/ Reply(t)
         \/ CommandReturn(t)
         \/ StreamDrd(t)
         \/ StreamEnd(t)
         \/ StreamClose(t)
         \/ StreamRelease(t)

SpecMix == InitMix /\ [][NextMix]_vars

(***************************************************************************)
(* The poll loop (BackgroundPoller._poll_loop) and its shutdown.           *)
(***************************************************************************)
\* background_poller.py:61  wait_for(self._task, timeout=5.0), in ticks
StopWait == 5 * TicksPerSecond

\* how many poll cycles a run goes through
MaxCycles == 2

\* background_poller.py:122-131  the config the for loop of the cycle comes
\* to next, "" when it has gone through all of them
NextDue ==
    LET rest == {k \in 1..Len(PollOrder) : PollOrder[k] \notin polled}
    IN  IF rest = {} THEN ""
        ELSE PollOrder[CHOOSE k \in rest : \A j \in rest : k <= j]

\* background_poller.py:42-50, 73-79, 119  start(): the task of _poll_loop
\* is made and enters its first cycle, which takes its "now"
PollerStart ==
    /\ ~running
    /\ loopAt = "none"
    /\ stopAt = "none"
    /\ running' = TRUE
    /\ loopAt' = "cycle"
    /\ cycles' = 1
    /\ cycleNow' = now
    /\ UNCHANGED <<stopAt, stopSince, calledAt, subTried, configs, streamOpen,
                   pollcfg, skipped, storeVars>>
    /\ UNCHANGED <<now, lockVars, rateVars, taskVars, askedIndex, wireVars,
                   deviceVars>>

\* background_poller.py:122-131  the for loop comes to config d with
\* _running set and awaits _poll_device
LoopPoll(d) ==
    /\ running
    /\ loopAt = "cycle"
    /\ d = NextDue
    /\ PollBegin(d)

\* background_poller.py:284-304, 136-140, 77-81  the commit of the except
\* branch of _poll_device raises: the exception leaves _poll_device and the
\* for loop of _poll_all_devices, whose session is closed with the update
\* of the row not committed, and is logged by _poll_loop, which goes to
\* its sleep
PollAbort(d) ==
    /\ pollpc = [at |-> "polling", unit |-> d]
    /\ pollpc' = PollerIdle
    /\ failStreak' = [failStreak EXCEPT ![d] = @ + 1]
    /\ loopAt' = "sleep"
    /\ polled' = {}
    /\ sessionSyncs' = [sessionSyncs EXCEPT ![d] = 0]
    /\ UNCHANGED <<status, hist, running, stopAt, stopSince, cycles, calledAt,
                   subTried, cfgVars>>
    /\ UNCHANGED <<now, lockVars, rateVars, taskVars, askedIndex, wireVars,
                   deviceVars>>

\* background_poller.py:122-140, 83-93  the for loop is over, with every
\* config polled or on "if not self._running: break"
LoopCycleEnd ==
    /\ loopAt = "cycle"
    /\ pollpc.at = "idle"
    /\ NextDue = "" \/ ~running
    /\ loopAt' = "sleep"
    /\ polled' = {}
    /\ UNCHANGED <<status, pollpc, hist, failStreak, sessionSyncs, running, stopAt, stopSince,
                   cycles, calledAt, subTried, cfgVars>>
    /\ UNCHANGED <<now, lockVars, rateVars, taskVars, askedIndex, wireVars,
                   deviceVars>>

\* background_poller.py:76, 96-100  the sleep between two cycles is over
\* with _running set: the next cycle
LoopWake ==
    /\ loopAt = "sleep"
    /\ running
    /\ cycles < MaxCycles
    /\ loopAt' = "cycle"
    /\ cycles' = cycles + 1
    /\ cycleNow' = now
    /\ UNCHANGED <<running, stopAt, stopSince, calledAt, subTried, configs,
                   streamOpen, pollcfg, skipped, storeVars>>
    /\ UNCHANGED <<now, lockVars, rateVars, taskVars, askedIndex, wireVars,
                   deviceVars>>

\* background_poller.py:76, 96-102  the sleep sees _running cleared: the
\* while loop ends and the task with it
LoopExit ==
    /\ loopAt = "sleep"
    /\ ~running
    /\ loopAt' = "exited"
    /\ UNCHANGED <<running, stopAt, stopSince, cycles, calledAt, subTried,
                   cfgVars, storeVars>>
    /\ UNCHANGED <<now, lockVars, rateVars, taskVars, askedIndex, wireVars,
                   deviceVars>>

\* background_poller.py:52-61  stop(): _running is cleared and the task
\* awaited for 5 s
Stop ==
    /\ running
    /\ stopAt = "none"
    /\ running' = FALSE
    /\ stopAt' = "waiting"
    /\ stopSince' = now
    /\ UNCHANGED <<loopAt, cycles, calledAt, subTried, cfgVars,
                   storeVars>>
    /\ UNCHANGED <<now, lockVars, rateVars, taskVars, askedIndex, wireVars,
                   deviceVars>>

\* background_poller.py:61, 71  the task ended within the 5 s: stop returns
StopReturn ==
    /\ stopAt = "waiting"
    /\ loopAt = "exited"
    /\ stopAt' = "returned"
    /\ UNCHANGED <<running, loopAt, stopSince, cycles, calledAt, subTried,
                   cfgVars, storeVars>>
    /\ UNCHANGED <<now, lockVars, rateVars, taskVars, askedIndex, wireVars,
                   deviceVars>>

\* background_poller.py:62-71  the 5 s are over with the task not ended:
\* wait_for cancels it, CancelledError is raised at the await the task
\* stands at, which "except Exception" does not catch, and stop returns
StopCancel ==
    /\ stopAt = "waiting"
    /\ loopAt # "exited"
    /\ now - stopSince >= StopWait
    /\ pollpc' = PollerIdle
    /\ loopAt' = "cancelled"
    /\ stopAt' = "returned"
    /\ UNCHANGED <<status, hist, failStreak, polled, sessionSyncs, running, stopSince, cycles,
                   calledAt, subTried, cfgVars>>
    /\ UNCHANGED <<now, lockVars, rateVars, taskVars, askedIndex, wireVars,
                   deviceVars>>

\* half a second passes while stop waits for a poll in progress
TickLoop ==
    /\ stopAt = "waiting"
    /\ pollpc.at # "idle"
    /\ now - stopSince < StopWait
    /\ now' = now + 1
    /\ UNCHANGED <<dbVars, lockVars, rateVars, taskVars, askedIndex, wireVars,
                   deviceVars>>

NextLoop ==
    \/ PollerStart
    \/ \E d \in Devices :
         \/ LoopPoll(d)
         \/ PollSuccess(d)
         \/ PollSynced(d)
         \/ PollFail(d)
         \/ PollAbort(d)
    \/ \E d \in Units : UpsertStatus(d)
    \/ LoopCycleEnd
    \/ LoopWake
    \/ LoopExit
    \/ Stop
    \/ StopReturn
    \/ StopCancel
    \/ TickLoop

SpecLoop == InitStatus /\ [][NextLoop]_vars

(***************************************************************************)
(* The poll cycle with its due check (_poll_all_devices, _should_poll),    *)
(* and the sleep between two cycles.                                       *)
(***************************************************************************)
\* models.py:23  poll_interval_seconds IS NULL
NoInterval == 0

\* background_poller.py:160  "cfg.poll_interval_seconds or 60"
FallbackInterval == 60

\* routers.py:82  the shortest interval PUT polling/config takes
ShortInterval == 10

\* background_poller.py:326, 334  the sleep without a config to poll, and
\* the least and the longest sleep, seconds
IdleSleep == 60
MinSleep == 30
MaxSleep == 300

\* how many ticks a poll of these runs takes at most
MaxPollTicks == 1

Min(a, b) == IF a <= b THEN a ELSE b

\* background_poller.py:160, 329  the interval of a config
IntervalOf(cfg) ==
    IF cfg.poll_interval_seconds = NoInterval THEN FallbackInterval
    ELSE cfg.poll_interval_seconds

\* background_poller.py:109-112  the filter of the query of the cycle
PollingEnabled(d) ==
    d \in configs /\ pollcfg[d].tcp_enabled /\ pollcfg[d].poll_enabled

\* the check had it passed every config
ShouldPollAlways(cfg, r, t) == TRUE

\* background_poller.py:142-170  _should_poll at the time t of the cycle,
\* r the row of the unit
ShouldPoll(cfg, r, t) ==
    IF ~r.exists \/ r.last_poll_attempt = NoTime THEN TRUE
    ELSE t - r.last_poll_attempt >= IntervalOf(cfg) * TicksPerSecond

\* background_poller.py:306-337  _calculate_sleep_interval, seconds
SleepInterval ==
    LET enabled == {d \in Devices : PollingEnabled(d)}
    IN  IF enabled = {} THEN IdleSleep
        ELSE LET min_interval ==
                     CHOOSE i \in {IntervalOf(pollcfg[d]) : d \in enabled} :
                         \A d \in enabled : i <= IntervalOf(pollcfg[d])
             IN  Max(MinSleep, Min(MaxSleep, min_interval \div 2))

\* background_poller.py:122-134  the config the for loop comes to next, ""
\* when it has gone through the configs of the query
NextVisit ==
    LET rest == {k \in 1..Len(PollOrder) :
                    /\ PollingEnabled(PollOrder[k])
                    /\ PollOrder[k] \notin polled \cup skipped}
    IN  IF rest = {} THEN ""
        ELSE PollOrder[CHOOSE k \in rest : \A j \in rest : k <= j]

\* background_poller.py:122-131  the for loop comes to config d, which is
\* due: _poll_device is awaited
DuePoll(d) ==
    /\ running
    /\ loopAt = "cycle"
    /\ d = NextVisit
    /\ ShouldPoll(pollcfg[d], status[d], cycleNow)
    /\ PollBegin(d)

\* background_poller.py:122-134  the for loop comes to config d, which is
\* not due, and goes on
DueSkip(d) ==
    /\ running
    /\ loopAt = "cycle"
    /\ pollpc.at = "idle"
    /\ d = NextVisit
    /\ ~ShouldPoll(pollcfg[d], status[d], cycleNow)
    /\ skipped' = skipped \cup {d}
    /\ UNCHANGED <<pollcfg, cycleNow, configs, streamOpen, running, loopAt,
                   stopAt, stopSince, cycles, calledAt, subTried, storeVars>>
    /\ UNCHANGED <<now, lockVars, rateVars, taskVars, askedIndex, wireVars,
                   deviceVars>>

\* half a second passes while request_dod of a poll is awaited
TickDue ==
    /\ pollpc.at = "polling"
    /\ now - cycleNow < MaxPollTicks
    /\ now' = now + 1
    /\ UNCHANGED <<dbVars, lockVars, rateVars, taskVars, askedIndex, wireVars,
                   deviceVars>>

\* background_poller.py:83-100, 306-337  the for loop is over: the sleep
\* time is computed and slept, a second at a time, which takes that long
\* or somewhat longer
DueSleep ==
    /\ running
    /\ loopAt = "cycle"
    /\ pollpc.at = "idle"
    /\ NextVisit = ""
    /\ loopAt' = "sleep"
    /\ \E late \in 0..1 :
         now' = now + SleepInterval * TicksPerSecond + late
    /\ UNCHANGED <<running, stopAt, stopSince, cycles, calledAt, subTried,
                   cfgVars, storeVars>>
    /\ UNCHANGED <<lockVars, rateVars, taskVars, askedIndex, wireVars,
                   deviceVars>>

\* background_poller.py:76-79, 104-119  the sleep is over with _running
\* set: the next cycle queries the configs and takes its "now"
DueWake ==
    /\ running
    /\ loopAt = "sleep"
    /\ cycles < MaxCycles
    /\ loopAt' = "cycle"
    /\ cycles' = cycles + 1
    /\ cycleNow' = now
    /\ polled' = {}
    /\ skipped' = {}
    /\ UNCHANGED <<status, pollpc, hist, failStreak, sessionSyncs, running,
                   stopAt, stopSince, calledAt, subTried, configs, streamOpen,
                   pollcfg>>
    /\ UNCHANGED <<now, lockVars, rateVars, taskVars, askedIndex, wireVars,
                   deviceVars>>

\* routers.py:1603-1634  PUT polling/config of unit d, made while the
\* poller sleeps between two cycles
SetPolling(d) ==
    /\ d \in configs
    /\ loopAt = "sleep"
    /\ \E interval \in {ShortInterval, FallbackInterval}, enabled \in BOOLEAN :
         /\ pollcfg' = [pollcfg EXCEPT ![d].poll_interval_seconds = interval,
                                       ![d].poll_enabled = enabled]
         /\ pollcfg' # pollcfg
    /\ UNCHANGED <<cycleNow, skipped, configs, streamOpen, running, loopAt,
                   stopAt, stopSince, cycles, calledAt, subTried, storeVars>>
    /\ UNCHANGED <<now, lockVars, rateVars, taskVars, askedIndex, wireVars,
                   deviceVars>>

\* no caller of the device client runs; the configs have their column
\* defaults, or no interval
InitDue ==
    /\ Quiet
    /\ \E interval \in {NoInterval, FallbackInterval} :
         pollcfg = [d \in Devices |->
                       [DefaultPolling EXCEPT !.poll_interval_seconds = interval]]
    /\ kind = [t \in Tasks |-> "none"]
    /\ dev = [t \in Tasks |-> "d1"]
    /\ req = [t \in Tasks |-> Battery]
    /\ pc = [t \in Tasks |-> "done"]
    /\ loc = [t \in Tasks |-> NewCycle(FALSE, DefaultMaxAttempts)]
    /\ storeName = [d \in Devices |-> Fmt04(StartIndex)]
    /\ occBase = [d \in Devices |-> StartIndex]
    /\ occLen = [d \in Devices |-> StartOccupied]
    /\ ftpDir = [d \in Devices |-> <<>>]

NextDueCycle ==
    \/ PollerStart
    \/ \E d \in Devices :
         \/ SetPolling(d)
         \/ DuePoll(d)
         \/ DueSkip(d)
         \/ PollSuccess(d)
         \/ PollFail(d)
    \/ TickDue
    \/ DueSleep
    \/ DueWake

SpecDue == InitDue /\ [][NextDueCycle]_vars

(***************************************************************************)
\* C1: for every device, at every instant, at most one TCP connection to
\* its control port is open from this process, whichever code path opened
\* it (commands, streams, the diagnostics endpoint)
OneSessionPerDevice == \A d \in Devices : Cardinality(conns[d]) <= 1

\* C2: any two successive commands written to a device are written at
\* least one second apart, whatever the connect and response latencies
WireSpacing ==
    \A d \in Devices :
        prevSend[d] >= 0 => lastSend[d] - prevSend[d] >= MinInterval

\* the cycle of task t has had its first command answered and has not yet
\* written its last one, Measure,Start
CycleMidway(t) ==
    /\ kind[t] = "cycle"
    /\ \/ hstep[t] \in {"set_index", "overwrite"}
       \/ hstep[t] = "get_index" /\ loc[t].sync
       \/ hstep[t] = "start" /\ pc[t] \notin {"await_reply", "returned", "done"}

\* C3: a start cycle is atomic for its device: between its first and its
\* last command no command of another caller to that device is on the wire
CycleAtomic ==
    \A t \in Tasks, u \in Tasks :
        CycleMidway(t) /\ u # t /\ dev[u] = dev[t] => pc[u] # "await_reply"

\* C7: in a start cycle that has sent Measure,Start with success, the last
\* Overwrite? answer was "None" and the index the device gave it for is the
\* one reported as new_index
StartedOnFreeIndex ==
    \A t \in Tasks :
        kind[t] = "cycle" /\ loc[t].started
            => /\ loc[t].last_overwrite = "None"
               /\ askedIndex[t] = loc[t].new_index

(***************************************************************************)
(* Properties of the start cycle alone with its device.                    *)
(***************************************************************************)
\* the cycle of task t is over and none of its commands failed
CycleRanThrough(t) ==
    kind[t] = "cycle" /\ hstep[t] = "end" /\ loc[t].error # "command"

\* C9: for every current index, when every other index holds data and
\* max_attempts is at least 10000, the cycle ends with the storage-full
\* error as soon as the tested index comes back to the current one, every
\* other index tested once, and Measure,Start not sent
FullStorageDetected ==
    \A t \in Tasks :
        /\ CycleRanThrough(t)
        /\ occLen[dev[t]] >= IndexModulus - 1
        /\ loc[t].max >= IndexModulus
        => /\ loc[t].error = "full"
           /\ loc[t].attempts = IndexModulus - 1
           /\ ~loc[t].started

\* C8: the i-th index the cycle writes with Store Name is (cur + i) mod
\* 10000, cur being the Store Name the cycle found; when the first free
\* index is the k-th tested and k <= max_attempts, the cycle reports
\* old_index = cur, new_index = (cur + k) mod 10000 and attempts = k
IndexArithmetic ==
    \A t \in Tasks :
        LET l == loc[t]
            d == dev[t]
            cur == occBase[d]
            k == occLen[d] + 1
        IN  kind[t] = "cycle" =>
              /\ hstep[t] = "overwrite" =>
                    /\ l.current_index = cur
                    /\ ParseInt(storeName[d]) = (cur + l.attempts) % IndexModulus
              /\ l.new_index # NoIndex =>
                    /\ l.old_index = cur
                    /\ l.attempts_made = k
                    /\ l.new_index = (cur + k) % IndexModulus
              /\ CycleRanThrough(t) /\ k <= l.max /\ k < IndexModulus =>
                    l.new_index # NoIndex

\* a cycle that found 0007 with 0008 and 0009 holding data has started the
\* measurement and reports old_index 7, new_index 10, attempts 3
IndexArithmeticWitness ==
    \E t \in Tasks :
        /\ kind[t] = "cycle"
        /\ occBase[dev[t]] = 7
        /\ occLen[dev[t]] = 2
        /\ loc[t].started
        /\ loc[t].old_index = 7
        /\ loc[t].new_index = 10
        /\ loc[t].attempts_made = 3

(***************************************************************************)
(* Properties of the status rows.                                          *)
(***************************************************************************)
\* the start time of the row of unit d is set
HasStartTime(d) == status[d].measurement_start_time # NoTime

\* C4: after a successful merge of a snapshot, in any state the row can be
\* in, measurement_start_time is set if and only if measurement_state is
\* "Start"
StartTimeIffStart ==
    \A d \in Devices :
        hist[d] # <<>> =>
            (HasStartTime(d) <=> status[d].measurement_state = "Start")

\* the step merges a snapshot into the row of unit d with success
Merged(d) == hist'[d] # hist[d] /\ hist'[d] # <<>>

\* the last five merges of unit d are those of the scenario
ScenarioMerged(d) ==
    /\ Len(hist[d]) = Len(Scenario)
    /\ \A i \in 1..Len(Scenario) : hist[d][i].state = Scenario[i]

PolledWithSuccess(d) ==
    /\ pollpc = [at |-> "polling", unit |-> d]
    /\ pollpc' # pollpc
    /\ failStreak'[d] = 0

CallsServedInOrder ==
    /\ \A t \in Tasks : (pc[t] = "call") ~> (pc[t] = "done")
    /\ [](\A t \in Tasks :
            /\ result[t] # "busy"
            /\ pc[t] = "done" => result[t] \in Outcomes \cup {"conn_err"})
    /\ [][\A d \in Devices, t \in Tasks :
            lockHolder'[d] = t /\ lockHolder[d] # t =>
                \/ lockWaiters[d] = <<>>
                \/ Head(lockWaiters[d]) = t]_vars

\* one call is over with its answer, the second holds the lock, the third
\* waits for it
CallsServedInOrderWitness ==
    \E d \in Devices, t \in Tasks, u \in Tasks, w \in Tasks :
        /\ pc[t] = "done" /\ result[t] = "ok"
        /\ lockHolder[d] = u /\ u # t
        /\ lockWaiters[d] = <<w>>

\* C11: a single-command call that waits for the device lock (a DRD stream
\* holds it) is over, with a timeout error, once the timeout of its client
\* has passed since the call: no call is still waiting for the lock later
\* than that.
LockWaitBounded ==
    \A t \in Tasks :
        /\ kind[t] = "cmd"
        /\ pc[t] = "wait_lock"
        /\ kind[lockHolder[dev[t]]] = "stream"
        => now - calledAt[t] <= CommandTimeout

\* the stream of task t had its TCP connection opened and has left the
\* device lock since
StreamOver(t) ==
    /\ kind[t] = "stream"
    /\ pc[t] = "done"
    /\ result[t] \notin {"busy", "conn_err"}

\* C12: however a DRD stream ends once its TCP connection is open (quiet
\* period, remote close, a result code other than R+0000, an error of the
\* callback, cancellation), SUB is written or tried first, the connection
\* is closed next and the device lock is left last; the stream holds the
\* lock all the time its connection is open.
StreamEndsInOrder ==
    [][\A t \in Tasks : kind[t] = "stream" =>
         LET d == dev[t]
         IN  /\ t \in conns'[d] => lockHolder'[d] = t
             /\ t \in conns[d] /\ t \notin conns'[d]
                    => subTried[t] /\ lockHolder[d] = t /\ lockHolder'[d] = t
             /\ lockHolder[d] = t /\ lockHolder'[d] # t /\ StreamOver(t)'
                    => subTried[t] /\ t \notin conns[d]
             /\ StreamOver(t)' => subTried'[t]]_vars

\* a stream that was cancelled has left the lock, after the SUB and the
\* close, and so has one that got another result code than R+0000
StreamEndsInOrderWitness ==
    \E t \in Tasks :
        /\ StreamOver(t)
        /\ result[t] \in {"cancelled", "dev_err"}
        /\ subTried[t]
        /\ t \notin conns[dev[t]]
        /\ lockHolder[dev[t]] # t

\* C13: the background poller is not queued behind a DRD stream: while a
\* stream holds the lock of a device, the poll of that device is skipped or
\* is over within the timeout of the poller's client, so that the poller
\* goes on to the other devices of the cycle.
PollerNotQueued ==
    \A t \in Tasks :
        /\ kind[t] = "poll"
        /\ pc[t] = "wait_lock"
        /\ lockHolder[dev[t]] # NoTask
        /\ kind[lockHolder[dev[t]]] = "stream"
        => now - calledAt[t] <= CommandTimeout

\* C14: the wait of the rate governor for one device does not delay a
\* command to another device: no time passes for a command that stands
\* before _enforce_rate_limit's lock while its holder sleeps out the
\* interval of a different device.
RateWaitPerDevice ==
    [][now' > now =>
         \A t \in Tasks :
             pc[t] = "wait_rl" /\ rlHolder # NoTask /\ pc[rlHolder] = "rl_sleep"
                 => dev[rlHolder] = dev[t]]_vars

\* C15: an error raised while a device is polled becomes
\* consecutive_failures + 1 on its row and stays inside the poll of that
\* device: the loop goes on with the cycle, and a cycle ends, while the
\* poller runs, only when every config has been polled.
PollErrorsAbsorbed ==
    /\ [][\A d \in Devices :
            failStreak'[d] = failStreak[d] + 1 =>
              /\ status'[d].consecutive_failures =
                     status[d].consecutive_failures + 1
              /\ loopAt' = loopAt]_vars
    /\ [][loopAt = "cycle" /\ loopAt' = "sleep" /\ running
            => \A k \in 1..Len(PollOrder) : PollOrder[k] \in polled]_vars

\* C16: stop() returns only when the poll loop has left by itself, the
\* poll that was in progress having run to its end however long it took.
StopWaitsForPoll ==
    [][stopAt = "waiting" /\ stopAt' = "returned"
         => loopAt = "exited" /\ pollpc.at = "idle"]_vars

\* C17: a merge that fails to persist changes no field of the row: the
\* row after it is the row before it, also when the merge saw a state
\* transition and wrote its log entry.
FailedMergeChangesNothing ==
    [][\A d \in Devices : MergeFails(d) => status'[d] = status[d]]_vars

\* C18: the measurement_state of every row is "Start", "Stop" or "unknown".
StoredStateKnown ==
    \A d \in Devices : status[d].measurement_state \in {"Start", "Stop", "unknown"}

\* C19: a status row exists only for a unit that has a config, also when
\* a stream is in flight while the config is deleted.
RowsHaveConfig ==
    \A d \in Devices : status[d].exists => d \in configs

\* C20: when a merge, of the poller or of a live request or stream, sees
\* the state go from "Start" to a non-Start state, start_time_sync_attempted
\* of the row is false once the merge is done.
StopResetsSyncFlag ==
    [][\A d \in Devices :
         /\ Merged(d)
         /\ status[d].exists
         /\ status[d].measurement_state = "Start"
         /\ status'[d].measurement_state # "Start"
         => ~status'[d].start_time_sync_attempted]_vars

(***************************************************************************)
(* The bounded waits of one command.                                       *)
(***************************************************************************)
\* services.py:279-286  wait_for(open_connection, timeout) runs out:
\* asyncio.TimeoutError is caught and ConnectionError raised in its place;
\* the device lock is left
ConnectTimeout(t) ==
    /\ pc[t] = "connecting"
    /\ now >= last_command_time[dev[t]] + CommandTimeout
    /\ result' = [result EXCEPT ![t] = "conn_err"]
    /\ ReleaseDeviceLock(t, AfterExchange(t))
    /\ UNCHANGED <<dbVars, req, askedIndex>>
    /\ UNCHANGED <<now, rateVars, kind, dev, wakeAt, cmd, reply, hstep, loc,
                   wireVars, deviceVars>>

\* services.py:279-281  open_connection answers before the timeout
ConnectInTime(t) ==
    /\ now < last_command_time[dev[t]] + CommandTimeout
    /\ Connect(t)

\* half a second passes while a connection is being opened, up to the
\* timeout of the client
TickConnect ==
    /\ \E t \in Tasks : pc[t] = "connecting"
    /\ \A t \in Tasks :
         pc[t] = "connecting" => now < last_command_time[dev[t]] + CommandTimeout
    /\ now' = now + 1
    /\ UNCHANGED <<lockVars, rateVars, taskVars, askedIndex, wireVars, deviceVars,
                   dbVars>>

\* one caller of a single command, and the clock
InitTimeout ==
    /\ Quiet
    /\ pollcfg = [d \in Devices |-> DefaultPolling]
    /\ kind = [t \in Tasks |-> IF t = 1 THEN "cmd" ELSE "none"]
    /\ dev = [t \in Tasks |-> "d1"]
    /\ \E c \in ResultCommands : req = [t \in Tasks |-> c]
    /\ pc = [t \in Tasks |-> IF t = 1 THEN "idle" ELSE "done"]
    /\ loc = [t \in Tasks |-> NewCycle(FALSE, DefaultMaxAttempts)]
    /\ storeName = [d \in Devices |-> Fmt04(StartIndex)]
    /\ occBase = [d \in Devices |-> StartIndex]
    /\ occLen = [d \in Devices |-> StartOccupied]
    /\ ftpDir = [d \in Devices |-> <<>>]

NextTimeout ==
    \/ TickConnect
    \/ \E t \in Tasks :
         \/ CallCommand(t)
         \/ SendCommand(t)
         \/ EnforceRateLimit(t)
         \/ ConnectInTime(t)
         \/ ConnectTimeout(t)
         \/ Reply(t)
         \/ CommandReturn(t)

SpecTimeout == InitTimeout /\ [][NextTimeout]_vars

(***************************************************************************)
(* The ways a single-command call ends, cancellation among them.            *)
(***************************************************************************)
Without(seq, t) == SelectSeq(seq, LAMBDA u : u # t)

\* the cancelled call had its finally block not closed the writer
CommandFinallySkipped(t) ==
    UNCHANGED conns

\* services.py:333-336  the finally block of _send_command_unlocked:
\* writer.close(), wait_closed awaited
CommandFinally(t) ==
    conns' = [conns EXCEPT ![dev[t]] = @ \ {t}]

\* where a single-command call can be cancelled: at each of its awaits
CancelPoints == {"wait_lock", "have_lock", "wait_rl", "have_rl", "rl_sleep",
                 "connecting", "await_reply"}

\* services.py:247-256, 268-271, 279-336  the task of a single-command call
\* is cancelled: CancelledError is raised at its await and runs through the
\* finally block and the "async with" blocks of _rate_limit_lock and the
\* device lock it is in
CancelCommand(t) ==
    LET d == dev[t]
        inRate == pc[t] \in {"have_rl", "rl_sleep"}
        n == IF inRate THEN NextRateHolder ELSE NoTask
        holds == pc[t] # "wait_lock"
        w == IF holds THEN NextHolder(d) ELSE NoTask
    IN  /\ kind[t] = "cmd"
        /\ pc[t] \in CancelPoints
        /\ result' = [result EXCEPT ![t] = "cancelled"]
        /\ CommandFinally(t)
        /\ rlWaiters' = IF pc[t] = "wait_rl" THEN Without(rlWaiters, t)
                        ELSE IF n # NoTask THEN Tail(rlWaiters)
                        ELSE rlWaiters
        /\ rlHolder' = IF inRate THEN n ELSE rlHolder
        /\ lockWaiters' = [lockWaiters EXCEPT ![d] =
                              IF ~holds THEN Without(@, t)
                              ELSE IF w # NoTask THEN Tail(@) ELSE @]
        /\ lockHolder' = [lockHolder EXCEPT ![d] = IF holds THEN w ELSE @]
        /\ pc' = [u \in Tasks |-> IF u = t THEN "returned"
                                  ELSE IF u = w THEN "have_lock"
                                  ELSE IF u = n THEN "have_rl"
                                  ELSE pc[u]]
        /\ UNCHANGED <<dbVars, req, askedIndex>>
        /\ UNCHANGED <<now, last_command_time, device_locks, kind, dev, wakeAt,
                       cmd, reply, hstep, loc, lastSend, prevSend, deviceVars>>

\* two callers of a single command, of one device or of two
InitCancel ==
    /\ Quiet
    /\ pollcfg = [d \in Devices |-> DefaultPolling]
    /\ kind = [t \in Tasks |-> IF t = 3 THEN "none" ELSE "cmd"]
    /\ \E d \in Devices : dev = [t \in Tasks |-> IF t = 2 THEN d ELSE "d1"]
    /\ req = [t \in Tasks |-> Battery]
    /\ pc = [t \in Tasks |-> IF t = 3 THEN "done" ELSE "idle"]
    /\ loc = [t \in Tasks |-> NewCycle(FALSE, DefaultMaxAttempts)]
    /\ storeName = [d \in Devices |-> Fmt04(StartIndex)]
    /\ occBase = [d \in Devices |-> StartIndex]
    /\ occLen = [d \in Devices |-> StartOccupied]
    /\ ftpDir = [d \in Devices |-> <<>>]

NextCancel ==
    \/ Tick
    \/ \E t \in Tasks :
         \/ CallStep(t)
         \/ CancelCommand(t)

SpecCancel == InitCancel /\ [][NextCancel]_vars

(***************************************************************************)
(* The sleep check of PUT config and POST start: every command is          *)
(* exchanged in one step, no clock.                                        *)
(***************************************************************************)
\* routers.py:314-358, 187-232  the locals of a request: tcp_enabled of the
\* config as the request finds or leaves it, what the sleep check did, and
\* the response
NewRequest(tcp_enabled) ==
    [tcp_enabled |-> tcp_enabled, sleep_asked |-> FALSE, sleep_answer |-> "",
     sleep_failed |-> FALSE, woke_sent |-> FALSE, start_sent |-> FALSE,
     attempts |-> 0, response |-> "none"]

\* services.py:553-557  what the device answers to Sleep Mode?
SleepAnswers == {"On", "Off"}

\* routers.py:32  "On" in current_status or "on" in current_status
SaysOn(current_status) == current_status \in {"On", "on"}

\* what the exchange of a command of a request can end with: those of
\* Outcomes and a connection that could not be opened
RequestOutcomes == Outcomes \cup {"conn_err"}

\* routers.py:349-357  the status code of the HTTPException an error of a
\* command is turned into
ErrorStatus(res) ==
    CASE res = "conn_err" -> "502"
      [] res = "timeout"  -> "504"
      [] OTHER            -> "500"

\* routers.py:334  range(3)
StartChecks == 3

\* routers.py:219-232, 330  after ensure_sleep_mode_disabled: PUT config
\* returns its data, POST start sends Measure,Start
AfterSleep(l, k) ==
    IF k = "upsert"
    THEN [l |-> [l EXCEPT !.response = "ok"], h |-> "end", cmd |-> <<>>]
    ELSE [l |-> l, h |-> "start", cmd |-> <<"Measure,Start">>]

\* the sleep check had its error been raised to the request
AfterSleepFailureRaised(l, k) ==
    [l |-> [l EXCEPT !.sleep_failed = TRUE, !.response = "500"],
     h |-> "end", cmd |-> <<>>]

\* routers.py:38-40  "except Exception": a warning, and no raise
AfterSleepFailure(l, k) ==
    AfterSleep([l EXCEPT !.sleep_failed = TRUE], k)

\* routers.py:27-40, 330-347  the request of kind k goes on after the command
\* of step h returned res with data line rep; merged says that the merged
\* row is in "Measure" with a start time
RequestStep(l, k, h, res, rep, merged) ==
    CASE h = "sleep_query" ->
           LET l2 == [l EXCEPT !.sleep_asked = TRUE]
           IN  IF res # "ok" THEN AfterSleepFailure(l2, k)
               ELSE IF SaysOn(rep)
               THEN [l |-> [l2 EXCEPT !.sleep_answer = rep],
                     h |-> "sleep_off", cmd |-> <<"Sleep Mode,Off">>]
               ELSE AfterSleep([l2 EXCEPT !.sleep_answer = rep], k)
      [] h = "sleep_off" ->
           LET l2 == [l EXCEPT !.woke_sent = TRUE]
           IN  IF res # "ok" THEN AfterSleepFailure(l2, k)
               ELSE AfterSleep(l2, k)
      [] h = "start" ->
           LET l2 == [l EXCEPT !.start_sent = TRUE]
           IN  IF res # "ok"
               THEN [l |-> [l2 EXCEPT !.response = ErrorStatus(res)],
                     h |-> "end", cmd |-> <<>>]
               ELSE [l |-> l2, h |-> "dod", cmd |-> <<"DOD?">>]
      [] h = "dod" ->
           LET l2 == [l EXCEPT !.attempts = @ + 1]
           IN  IF res # "ok"
               THEN [l |-> [l2 EXCEPT !.response = ErrorStatus(res)],
                     h |-> "end", cmd |-> <<>>]
               ELSE IF merged \/ l2.attempts >= StartChecks
               THEN [l |-> [l2 EXCEPT !.response = "ok"], h |-> "end",
                     cmd |-> <<>>]
               ELSE [l |-> l2, h |-> "dod", cmd |-> <<"DOD?">>]

\* routers.py:187-218  PUT config: the config is made if absent and written,
\* and the sleep check follows when TCP is enabled (host and port are never
\* empty: the defaults of the columns and the validators of the payload)
UpsertConfigRequest(t) ==
    LET d == dev[t]
    IN  /\ kind[t] = "upsert"
        /\ pc[t] = "idle"
        /\ configs' = configs \cup {d}
        /\ IF loc[t].tcp_enabled
           THEN /\ hstep' = [hstep EXCEPT ![t] = "sleep_query"]
                /\ cmd' = [cmd EXCEPT ![t] = <<"Sleep Mode?">>]
                /\ pc' = [pc EXCEPT ![t] = "call"]
                /\ UNCHANGED loc
           ELSE /\ loc' = [loc EXCEPT ![t].response = "ok"]
                /\ pc' = [pc EXCEPT ![t] = "done"]
                /\ UNCHANGED <<hstep, cmd>>
        /\ pollcfg' = [pollcfg EXCEPT ![d].tcp_enabled = loc[t].tcp_enabled]
        /\ UNCHANGED <<storeVars, calledAt, subTried, running, loopAt, stopAt,
                       stopSince, cycles, streamOpen, cycleNow, skipped, req,
                       askedIndex>>
        /\ UNCHANGED <<now, lockVars, rateVars, kind, dev, wakeAt, result,
                       reply, wireVars, deviceVars>>

\* routers.py:314-330  POST start: 404 without a config, 403 with TCP
\* disabled, else the sleep check
StartMeasurement(t) ==
    LET d == dev[t]
    IN  /\ kind[t] = "start"
        /\ pc[t] = "idle"
        /\ IF d \notin configs \/ ~loc[t].tcp_enabled
           THEN /\ loc' = [loc EXCEPT ![t].response =
                              IF d \notin configs THEN "404" ELSE "403"]
                /\ pc' = [pc EXCEPT ![t] = "done"]
                /\ UNCHANGED <<hstep, cmd>>
           ELSE /\ hstep' = [hstep EXCEPT ![t] = "sleep_query"]
                /\ cmd' = [cmd EXCEPT ![t] = <<"Sleep Mode?">>]
                /\ pc' = [pc EXCEPT ![t] = "call"]
                /\ UNCHANGED loc
        /\ UNCHANGED <<dbVars, req, askedIndex>>
        /\ UNCHANGED <<now, lockVars, rateVars, kind, dev, wakeAt, result,
                       reply, wireVars, deviceVars>>

\* services.py:258-336  the command of the request's step is sent and
\* answered, and routers.py:27-40, 330-347 the request goes on with the
\* answer; the snapshot of request_dod is merged into the row of the unit
RequestExchange(t) ==
    LET d == dev[t]
        c == cmd[t]
        h == hstep[t]
    IN  /\ kind[t] \in {"upsert", "start"}
        /\ pc[t] = "call"
        /\ \E o \in RequestOutcomes, answer \in SleepAnswers,
              new_state \in SnapStates :
             LET rep == IF o = "ok" /\ c[1] = "Sleep Mode?" THEN answer
                        ELSE "R"
                 row == IF o = "ok" /\ h = "dod" THEN PersistedRow(d, new_state)
                        ELSE status[d]
                 merged == /\ row.measurement_state = "Measure"
                           /\ row.measurement_start_time # NoTime
                 n == RequestStep(loc[t], kind[t], h, o, rep, merged)
             IN  /\ result' = [result EXCEPT ![t] = o]
                 /\ reply' = [reply EXCEPT ![t] = rep]
                 /\ status' = [status EXCEPT ![d] = row]
                 /\ hist' = [hist EXCEPT ![d] =
                                IF o = "ok" /\ h = "dod" THEN Remembered(d, row)
                                ELSE @]
                 /\ loc' = [loc EXCEPT ![t] = n.l]
                 /\ hstep' = [hstep EXCEPT ![t] = n.h]
                 /\ cmd' = [cmd EXCEPT ![t] = IF n.h = "end" THEN @ ELSE n.cmd]
                 /\ pc' = [pc EXCEPT ![t] =
                              IF n.h = "end" THEN "done" ELSE "call"]
        /\ UNCHANGED <<extVars, polled, sessionSyncs, pollpc, failStreak, req,
                       askedIndex, now, lockVars, rateVars, kind, dev, wakeAt,
                       wireVars, deviceVars>>

\* a PUT config and a POST start of unit d1, whose config may be deleted
InitSleep ==
    /\ Quiet
    /\ pollcfg = [d \in Devices |-> DefaultPolling]
    /\ kind = [t \in Tasks |-> IF t = 1 THEN "upsert"
                               ELSE IF t = 2 THEN "start" ELSE "none"]
    /\ dev = [t \in Tasks |-> "d1"]
    /\ req = [t \in Tasks |-> Battery]
    /\ pc = [t \in Tasks |-> IF t = 3 THEN "done" ELSE "idle"]
    /\ \E tcp_enabled \in BOOLEAN :
         loc = [t \in Tasks |-> NewRequest(tcp_enabled)]
    /\ storeName = [d \in Devices |-> Fmt04(StartIndex)]
    /\ occBase = [d \in Devices |-> StartIndex]
    /\ occLen = [d \in Devices |-> StartOccupied]
    /\ ftpDir = [d \in Devices |-> <<>>]

NextSleep ==
    \/ \E d \in Units : DeleteConfig(d)
    \/ \E t \in Tasks :
         \/ UpsertConfigRequest(t)
         \/ StartMeasurement(t)
         \/ RequestExchange(t)

SpecSleep == InitSleep /\ [][NextSleep]_vars

(***************************************************************************)
(* The start-time sync of the poller.                                      *)
(***************************************************************************)

SyncFailureRecorded ==
    [][\A d \in Units :
          (/\ PollSynced(d)
           /\ status[d].measurement_start_time = NoTime
           /\ status'[d].measurement_start_time = NoTime)
             => /\ status'[d].last_error # NoError
                /\ status'[d].consecutive_failures = 0
                /\ status'[d].is_reachable]_vars

\* the modified timestamps of the directories of a listing that parsed
ParsedStamps(files) ==
    {ModifiedTimestamp(files[i]) :
        i \in {k \in 1..Len(files) : files[k].is_dir /\ files[k].parseable}}

\* C23: after a start-time sync measurement_start_time is the greatest
\* parsed modification timestamp, in UTC, among the directories of /NL-43;
\* lines that are no directories are ignored and directories whose
\* timestamp does not parse do not prevent the result; the sync flag is set.
SyncTakesNewestFolder ==
    [][\A d \in Units :
          (SyncFromFtp(d) /\ ParsedStamps(ftpDir[d]) # {})
             => /\ \A x \in ParsedStamps(ftpDir[d]) :
                      x <= status'[d].measurement_start_time
                /\ status'[d].measurement_start_time \in ParsedStamps(ftpDir[d])
                /\ status'[d].start_time_sync_attempted]_vars

(***************************************************************************)
(* The cycles and their errors.                                            *)
(***************************************************************************)

\* C24: a stop cycle whose Measure,Stop succeeded and whose folder download
\* fails returns its result instead of raising, with stopped and
\* download_attempted true, download_success false and the error recorded,
\* and a stop cycle never sends Measure,Start.
StopDownloadFailureReturned ==
    \A t \in Tasks :
        kind[t] = "stop_cycle" =>
            /\ cmd[t] # <<"Measure,Start">>
            /\ loc[t].download_raised =>
                 /\ pc[t] = "done"
                 /\ loc[t].error = "none"
                 /\ loc[t].stopped
                 /\ loc[t].download_attempted
                 /\ ~loc[t].download_success
                 /\ loc[t].download_error

\* a stop cycle is over whose download raised
StopDownloadFailureWitness ==
    \E t \in Tasks :
        /\ kind[t] = "stop_cycle"
        /\ pc[t] = "done"
        /\ loc[t].stopped
        /\ loc[t].download_raised
        /\ cmd[t] = <<"Store Name?">>

\* services.py:1299-1350, 1380-1454  what the caller of a cycle that is
\* over has in hand: the result dict when "return result" was reached, the
\* exception when a command raised; the dict is a local of the coroutine
\* and goes with it
CallerReceives(l) ==
    [exception |-> l.error # "none", result |-> l.error = "none"]

\* C25: when a command of a start cycle or a stop cycle fails, the caller
\* receives the error together with the report of the steps that had
\* completed before the failure.
CycleFailureReported ==
    \A t \in Tasks :
        (/\ kind[t] \in {"cycle", "stop_cycle"}
         /\ pc[t] = "done"
         /\ loc[t].error = "command")
            => /\ CallerReceives(loc[t]).exception
               /\ CallerReceives(loc[t]).result

\* C26: for a single-command call R+0000, after one leading "$" is
\* stripped, is the only success; R+0001 to R+0004 raise the command,
\* parameter, spec and state error, any other first line the error of an
\* unknown code; the data line is read only after R+0000 of a command that
\* ends in "?", and a setter returns after the first line.
ResultCodeDecides ==
    [][\A t \in Tasks :
          (pc[t] = "await_reply" /\ pc'[t] = "returned") =>
             LET line == loc'[t].first_line
                 text == IF line.prompt <= 1 THEN line.code ELSE "$"
             IN  /\ (result'[t] = "ok") <=> (text = "R+0000")
                 /\ text = "R+0000" => loc'[t].error = "none"
                 /\ text = "R+0001" => loc'[t].error = "Command error"
                 /\ text = "R+0002" => loc'[t].error = "Parameter error"
                 /\ text = "R+0003" => loc'[t].error = "Spec/type error"
                 /\ text = "R+0004" => loc'[t].error = "Status error"
                 /\ text \notin {"R+0000", "R+0001", "R+0002", "R+0003",
                                 "R+0004"}
                      => loc'[t].error = "Unknown result code"
                 /\ loc'[t].data_read
                      <=> (text = "R+0000" /\ cmd[t][1] \in Queries)
                 /\ reply'[t] # "R" => loc'[t].data_read]_vars

\* a call whose first line was "$R+0004" has raised the status error
ResultCodeDecidesWitness ==
    \E t \in Tasks :
        /\ pc[t] = "returned"
        /\ loc[t].first_line = [prompt |-> 1, code |-> "R+0004"]
        /\ loc[t].error = "Status error"
        /\ ~loc[t].data_read

\* C27: when a bounded wait of a single-command call runs out, for the TCP
\* connection or for a response line, the call raises TimeoutError, and
\* last_command_time of the device has been advanced by that call.
TimeoutRaised ==
    [][\A t \in Tasks :
          (ConnectTimeout(t) \/ (Reply(t) /\ result'[t] = "timeout"))
             => /\ result'[t] = "timeout"
                /\ last_command_time'[dev[t]] >= Epoch
                /\ now - last_command_time'[dev[t]] <= CommandTimeout]_vars

\* services.py:612-676  what the caller of stream_drd gets when the stream
\* is over: both the quiet period and the closed connection leave the
\* reading loop with "break", and stream_drd returns None; an error of the
\* callback and a cancellation are raised, as is a failed start
StreamOutcome(why) ==
    CASE why \in {"quiet", "closed"} -> "returned"
      [] OTHER -> why

\* C28: a DRD stream on which no data line arrives within the 30 s quiet
\* period ends with a timeout error, which the caller can tell from the
\* clean end of a stream whose connection the device closed.
QuietStreamRaises ==
    \A t \in Tasks :
        (kind[t] = "stream" /\ pc[t] = "done" /\ result[t] = "quiet")
            => /\ StreamOutcome(result[t]) # "returned"
               /\ StreamOutcome(result[t]) # StreamOutcome("closed")

\* C29: however a single-command call ends (success, error result code,
\* response timeout, I/O error, cancellation), the connection it opened is
\* closed and the device lock released when control returns; the call
\* leaves no connection open and no lock held or waited for.
CallLeavesNothing ==
    \A t \in Tasks :
        (kind[t] = "cmd" /\ pc[t] \in {"returned", "done"}) =>
            /\ \A d \in Devices :
                 /\ t \notin conns[d]
                 /\ lockHolder[d] # t
                 /\ \A k \in 1..Len(lockWaiters[d]) : lockWaiters[d][k] # t
            /\ rlHolder # t
            /\ \A k \in 1..Len(rlWaiters) : rlWaiters[k] # t

\* the first call was cancelled with its connection open, before the other
\* caller had begun, and has returned
CallLeavesNothingWitness ==
    /\ pc[1] = "returned"
    /\ result[1] = "cancelled"
    /\ lastSend[dev[1]] >= Epoch
    /\ pc[2] = "idle"

\* C30: POST start asks Sleep Mode? before it sends Measure,Start, and
\* PUT config asks it when it leaves TCP enabled; Sleep Mode,Off is sent
\* when, and only when, the answer says On; a failure of the sleep check
\* fails neither: PUT config answers ok and Measure,Start is sent.
SleepCheckedNeverFatal ==
    \A t \in Tasks :
        LET l == loc[t]
            checked == kind[t] = "upsert" \/ l.response \notin {"404", "403"}
        IN  kind[t] \in {"upsert", "start"} =>
              /\ (kind[t] = "start" /\ cmd[t] = <<"Measure,Start">>)
                    => l.sleep_asked
              /\ (pc[t] = "done" /\ l.tcp_enabled /\ checked) => l.sleep_asked
              /\ l.woke_sent => SaysOn(l.sleep_answer)
              /\ (SaysOn(l.sleep_answer) /\ hstep[t] # "sleep_off")
                    => l.woke_sent
              /\ (kind[t] = "upsert" /\ pc[t] = "done") => l.response = "ok"
              /\ (kind[t] = "start" /\ pc[t] = "done" /\ checked)
                    => l.start_sent

\* a POST start whose sleep check failed has sent Measure,Start and is over
SleepCheckedNeverFatalWitness ==
    \E t \in Tasks :
        /\ kind[t] = "start"
        /\ pc[t] = "done"
        /\ loc[t].sleep_failed
        /\ loc[t].start_sent
        /\ loc[t].response = "ok"

(***************************************************************************)
(* The poll attempts and the due check of the poll cycle.                  *)
(***************************************************************************)
\* the step begins a poll of unit d
PollBegun(d) == pollpc.at = "idle" /\ pollpc' = [at |-> "polling", unit |-> d]

\* the step ends a poll of unit d, with success or not
PollEnded(d) == pollpc = [at |-> "polling", unit |-> d] /\ pollpc' # pollpc

\* C31: last_poll_attempt is stamped with the time of the attempt and
\* stored before DOD? is issued, so that it is there while request_dod is
\* awaited; the end of the poll, success or failure, leaves it, and a poll
\* that succeeds records a last_success that is not before it
AttemptStampedFirst ==
    /\ [](\A d \in Devices :
            pollpc = [at |-> "polling", unit |-> d] =>
              /\ status[d].exists
              /\ status[d].last_poll_attempt # NoTime
              /\ status[d].last_poll_attempt <= now)
    /\ [][\A d \in Devices :
            /\ PollBegun(d) => status'[d].last_poll_attempt = now
            /\ PollEnded(d) =>
                 status'[d].last_poll_attempt = status[d].last_poll_attempt
            /\ PolledWithSuccess(d) =>
                 /\ status'[d].last_success = now
                 /\ status'[d].last_poll_attempt <= status'[d].last_success]_vars

\* a unit polled with success in one cycle and without in the next: the
\* attempt is stamped after the last success
AttemptStampedFirstWitness ==
    \E d \in Devices :
        /\ pollpc.at = "idle"
        /\ status[d].last_success # NoTime
        /\ status[d].consecutive_failures = 1
        /\ status[d].last_poll_attempt > status[d].last_success

\* the step takes the for loop of the cycle past config d
Visited(d) == d \notin polled \cup skipped /\ d \in polled' \cup skipped'

Queued(seq, t) == \E i \in 1..Len(seq) : seq[i] = t

WaitsForDevice(t) == \E d \in Devices : Queued(lockWaiters[d], t)

WaitsForRate(t) == Queued(rlWaiters, t)

Blocked(t) == WaitsForDevice(t) \/ WaitsForRate(t)

\* C33: the locks are taken in one order and nothing deadlocks. Whoever
\* holds or waits for the rate-limit lock holds the lock of its device;
\* whoever waits for a device lock holds no lock at all; a lock with
\* waiters has a holder; and every waiting task waits for a task that
\* waits for nothing, or for one that waits for such a task. The mutex of
\* the lock table is taken and released inside the step that gets the
\* device lock (services.py:229-234 has no await under it), so that no
\* task holds it in any state
LocksTakenInOrder ==
    /\ \A t \in Tasks :
         /\ (rlHolder = t \/ WaitsForRate(t)) => lockHolder[dev[t]] = t
         /\ WaitsForDevice(t) =>
              /\ rlHolder # t
              /\ ~WaitsForRate(t)
              /\ \A d \in Devices : lockHolder[d] # t
         /\ rlHolder = t => ~Blocked(t)
    /\ \A d \in Devices :
         /\ lockWaiters[d] # <<>> => lockHolder[d] # NoTask
         /\ \A t \in Tasks :
              Queued(lockWaiters[d], t) =>
                 \/ ~Blocked(lockHolder[d])
                 \/ WaitsForRate(lockHolder[d]) /\ ~Blocked(rlHolder)
    /\ rlWaiters # <<>> => rlHolder # NoTask /\ ~Blocked(rlHolder)

\* the poller waits for the lock of d1 behind a caller that waits in its
\* turn for the rate-limit lock or sleeps under it
LocksTakenInOrderWitness ==
    \E t, u \in Tasks :
        /\ kind[t] = "poll"
        /\ Queued(lockWaiters["d1"], t)
        /\ lockHolder["d1"] = u
        /\ rlHolder = u
        /\ pc[u] = "rl_sleep"

(***************************************************************************)
(* The start time under the merges of a stream and of a failed state query.*)
(***************************************************************************)
\* the merges i and k of hist[d] see "Start" with no "Start" between them
\* and at least one other state
StartAgain(d, i, k) ==
    /\ i + 1 < k
    /\ hist[d][i].state = "Start"
    /\ hist[d][k].state = "Start"
    /\ \A j \in (i + 1)..(k - 1) : hist[d][j].state # "Start"

SearchFailed(t) ==
    /\ kind[t] = "cycle"
    /\ hstep[t] = "end"
    /\ loc[t].error \in {"exhausted", "full"}

\* C38: a start cycle that finds no free index, its attempts used up or
\* the storage declared full, has not sent Measure,Start and leaves the
\* Store Name of the device at the last index it tested, which answered
\* "Exist", and not at old_index
FailedSearchLeavesLastTested ==
    \A t \in Tasks :
        SearchFailed(t) =>
            /\ ~loc[t].started
            /\ cmd[t] # <<"Measure,Start">>
            /\ loc[t].last_overwrite = "Exist"
            /\ askedIndex[t] = ParseInt(storeName[dev[t]])
            /\ ParseInt(storeName[dev[t]]) # loc[t].old_index

(***************************************************************************)
(* The timestamps of the rate governor.                                    *)
(***************************************************************************)
\* task t stands before the stamp of _enforce_rate_limit: it waits for the
\* device lock or for _rate_limit_lock, holds one of them, or sleeps
BeforeStamp(t) ==
    pc[t] \in {"wait_lock", "have_lock", "wait_rl", "have_rl", "rl_sleep"}

\* C39: the timestamps the rate governor records for one device are at
\* least 1.0 s apart, each the time at which a call passes
\* _enforce_rate_limit; a call cancelled while it waits leaves the
\* timestamp as it was, and a call whose connection then fails has
\* recorded its timestamp and leaves it standing
RateStampsSpaced ==
    /\ [][\A d \in Devices :
            last_command_time'[d] # last_command_time[d] =>
                /\ last_command_time'[d] = now
                /\ now - last_command_time[d] >= MinInterval]_vars
    /\ [][\A t \in Tasks :
            /\ (pc[t] # "connecting" /\ pc'[t] = "connecting" =>
                   last_command_time'[dev[t]] = now)
            /\ (BeforeStamp(t) /\ CancelCommand(t) =>
                   last_command_time' = last_command_time)
            /\ (pc[t] = "connecting" /\ result'[t] = "conn_err" =>
                   /\ last_command_time'[dev[t]] = last_command_time[dev[t]]
                   /\ last_command_time[dev[t]] >= Epoch)]_vars

\* a call that failed to connect has left its timestamp, and the next call
\* to the same device has passed _enforce_rate_limit with a timestamp of
\* its own, at least 1.0 s later
RateStampsSpacedWitness ==
    \E t, u \in Tasks :
        /\ t # u
        /\ dev[t] = dev[u]
        /\ result[u] = "conn_err"
        /\ pc[u] \in {"returned", "done"}
        /\ pc[t] = "connecting"
        /\ last_command_time[dev[t]] >= Epoch + MinInterval

(***************************************************************************)
(* The reachability fields in every committed row.                         *)
(***************************************************************************)
\* C40: with the poller as the only writer of the reachability fields, in
\* every committed state of a status row is_reachable is true exactly when
\* consecutive_failures is less than 3
ReachableIffFewFailures ==
    \A d \in Units :
        status[d].exists =>
            (status[d].is_reachable
                <=> status[d].consecutive_failures < UnreachableAfter)
====
